---------------------------- MODULE Spec2Model ----------------------------
(***************************************************************************)
(* Metadata extraction of photomap: the malformed-EXIF scanner             *)
(* (exif_parser_test/src/gps_parser.rs), the JPEG container scanner        *)
(* (src/exif_parser/jpeg.rs), the GPS resolver                             *)
(* and the timestamp resolver (src/exif_parser/generic.rs,                 *)
(* src/exif_parser.rs), the HEIC orchestration (src/exif_parser/heic.rs),  *)
(* the extraction of the test harness (exif_parser_test/src/main.rs), the  *)
(* batch over a directory (src/processing.rs), the settings file           *)
(* (src/settings.rs) and the processing requests of the server             *)
(* (src/server/handlers.rs).                                               *)
(*                                                                         *)
(* A file is a sequence of bytes (0..255).  Rust index i is TLA+ index     *)
(* i + 1.  An indexing or slicing outside the buffer is the result Panic.  *)
(* An f64 coordinate is the exact fraction n/d (d > 0), or Inf / NaN when  *)
(* a division by zero produced it; f64 rounding is not modelled.           *)
(* usize is 64 bits: u32 + usize never overflows.                          *)
(***************************************************************************)
EXTENDS Integers, Sequences, FiniteSets, TLC

VARIABLES data, ext, lib, heif, pc, result, steps, prev, batch, config,
          table, events, run

vars == <<data, ext, lib, heif, pc, result, steps, prev, batch, config,
          table, events, run>>

---------------------------------------------------------------------------
(* Option / Result values                                                  *)

None == [k |-> "None"]

Panic == [k |-> "Panic"]

Some(x) == [k |-> "Some", v |-> x]

IsSome(r) == r.k = "Some"

Ok(x) == [k |-> "Ok", v |-> x]

Err(e) == [k |-> "Err", e |-> e]

IsOk(r) == r.k = "Ok"

---------------------------------------------------------------------------
(* Bytes                                                                   *)

At(d, i) == d[i + 1]

\* &data[a..b] is a valid slice
InBounds(d, a, b) == a <= b /\ b <= Len(d)

Slice(d, a, b) == SubSeq(d, a + 1, b)

LE == "II"

BE == "MM"

read_u16(d, pos, bo) ==
    IF bo = LE THEN At(d, pos) + 256 * At(d, pos + 1)
    ELSE 256 * At(d, pos) + At(d, pos + 1)

read_u32(d, pos, bo) ==
    IF bo = LE
    THEN At(d, pos) + 256 * At(d, pos + 1) + 65536 * At(d, pos + 2)
         + 16777216 * At(d, pos + 3)
    ELSE 16777216 * At(d, pos) + 65536 * At(d, pos + 1) + 256 * At(d, pos + 2)
         + At(d, pos + 3)

\* b"Exif\0\0"
ExifSig == <<69, 120, 105, 102, 0, 0>>

ChS == 83

ChW == 87

\* the letters of the northern and eastern hemisphere in a file
HemisphereLetter == [N |-> 78, E |-> 69]

ChN == HemisphereLetter.N

ChE == HemisphereLetter.E

---------------------------------------------------------------------------
(* f64 coordinates as exact fractions                                      *)

\* num as f64 / den as f64 for one rational, kept unevaluated
Rat(n, d) == [n |-> n, d |-> d]

\* degrees + minutes / 60.0 + seconds / 3600.0
DmsToDecimal(deg, min, sec) ==
    IF deg.d = 0 \/ min.d = 0 \/ sec.d = 0
    THEN \* IEEE: x/0 is +-inf, 0/0 is NaN; inf - inf is NaN
         LET nan == (deg.d = 0 /\ deg.n = 0) \/ (min.d = 0 /\ min.n = 0)
                    \/ (sec.d = 0 /\ sec.n = 0)
             sgn == {IF r.n > 0 THEN 1 ELSE -1 :
                        r \in {x \in {deg, min, sec} : x.d = 0 /\ x.n # 0}}
         IN  IF nan \/ Cardinality(sgn) > 1 THEN [f |-> "NaN", n |-> 0, d |-> 1]
             ELSE [f |-> "Inf", n |-> CHOOSE x \in sgn : TRUE, d |-> 1]
    ELSE LET n0 == deg.n * 3600 * min.d * sec.d + min.n * 60 * deg.d * sec.d
                   + sec.n * deg.d * min.d
             d0 == 3600 * deg.d * min.d * sec.d
         IN  IF d0 > 0 THEN [f |-> "Fin", n |-> n0, d |-> d0]
             ELSE [f |-> "Fin", n |-> -n0, d |-> -d0]

\* -x
Neg(x) == [x EXCEPT !.n = -x.n]

---------------------------------------------------------------------------
(* Malformed-EXIF fallback scanner: exif_parser_test/src/gps_parser.rs     *)

RECURSIVE find_exif_segment_loop(_, _)
find_exif_segment_loop(d, pos) ==
    IF ~(pos + 4 < Len(d)) THEN None
    ELSE IF ~InBounds(d, pos, pos + 4) THEN Panic
    ELSE IF At(d, pos) # 255 THEN None
    ELSE LET marker == At(d, pos + 1)
             length == 256 * At(d, pos + 2) + At(d, pos + 3)
         IN  IF marker = 225 /\ pos + 10 < Len(d)
             THEN IF ~InBounds(d, pos + 4, pos + 10) THEN Panic
                  ELSE IF Slice(d, pos + 4, pos + 10) = ExifSig THEN Some(pos)
                  ELSE find_exif_segment_loop(d, pos + 2 + length)
             ELSE find_exif_segment_loop(d, pos + 2 + length)

find_exif_segment(d) ==
    IF Len(d) < 4 THEN None
    ELSE IF Slice(d, 0, 2) # <<255, 216>> THEN None
    ELSE find_exif_segment_loop(d, 2)

RECURSIVE find_gps_ifd_offset_loop(_, _, _, _)
find_gps_ifd_offset_loop(d, pos, left, bo) ==
    IF left = 0 THEN None
    ELSE IF pos + 12 > Len(d) THEN None
    ELSE IF ~InBounds(d, pos, pos + 12) THEN Panic
    ELSE IF read_u16(d, pos, bo) = 34853
         THEN Some(read_u32(d, pos + 8, bo))
         ELSE find_gps_ifd_offset_loop(d, pos + 12, left - 1, bo)

\* a walker that follows the directory chain: it gives up when the
\* next-directory link after the declared entries points past the buffer
find_gps_ifd_offset_chained(d, tiff_start, ifd_offset, bo) ==
    LET ifd_pos == tiff_start + ifd_offset
        link_pos == ifd_pos + 2 + 12 * read_u16(d, ifd_pos, bo)
    IN  IF ifd_pos + 2 > Len(d) THEN None
        ELSE IF link_pos + 4 <= Len(d)
                /\ read_u32(d, link_pos, bo) # 0
                /\ tiff_start + read_u32(d, link_pos, bo) + 2 > Len(d)
        THEN None
        ELSE find_gps_ifd_offset_loop(d, ifd_pos + 2,
                                      read_u16(d, ifd_pos, bo), bo)

\* the same search with the directory offset counted from the start of the
\* file
find_gps_ifd_offset_from_file_start(d, tiff_start, ifd_offset, bo) ==
    LET ifd_pos == ifd_offset
    IN  IF ifd_pos + 2 > Len(d) THEN None
        ELSE find_gps_ifd_offset_loop(d, ifd_pos + 2,
                                      read_u16(d, ifd_pos, bo), bo)

find_gps_ifd_offset(d, tiff_start, ifd_offset, bo) ==
    LET ifd_pos == tiff_start + ifd_offset
    IN  IF ifd_pos + 2 > Len(d) THEN None
        ELSE IF ~InBounds(d, ifd_pos, ifd_pos + 2) THEN Panic
        ELSE find_gps_ifd_offset_loop(d, ifd_pos + 2,
                                      read_u16(d, ifd_pos, bo), bo)

\* the same read with each denominator taken before its numerator
read_gps_coordinate_den_first(d, tiff_start, offset, bo) ==
    LET pos == tiff_start + offset
    IN  IF pos + 24 > Len(d) THEN None
        ELSE LET deg == Rat(read_u32(d, pos + 4, bo), read_u32(d, pos, bo))
                 min == Rat(read_u32(d, pos + 12, bo), read_u32(d, pos + 8, bo))
                 sec == Rat(read_u32(d, pos + 20, bo), read_u32(d, pos + 16, bo))
             IN  IF deg.d = 0 \/ min.d = 0 \/ sec.d = 0 THEN None
                 ELSE Some(DmsToDecimal(deg, min, sec))

read_gps_coordinate(d, tiff_start, offset, bo) ==
    LET pos == tiff_start + offset
    IN  IF pos + 24 > Len(d) THEN None
        ELSE IF ~InBounds(d, pos, pos + 24) THEN Panic
        ELSE LET deg == Rat(read_u32(d, pos, bo), read_u32(d, pos + 4, bo))
                 min == Rat(read_u32(d, pos + 8, bo), read_u32(d, pos + 12, bo))
                 sec == Rat(read_u32(d, pos + 16, bo), read_u32(d, pos + 20, bo))
             IN  IF deg.d = 0 \/ min.d = 0 \/ sec.d = 0 THEN None
                 ELSE Some(DmsToDecimal(deg, min, sec))

\* one iteration of the entry loop of parse_gps_ifd; acc holds lat, lat_ref,
\* lon, lon_ref and whether an access panicked
parse_gps_entry(d, tiff_start, pos, bo, acc) ==
    IF ~InBounds(d, pos, pos + 12) THEN [acc EXCEPT !.panic = TRUE]
    ELSE LET tag == read_u16(d, pos, bo)
             format == read_u16(d, pos + 2, bo)
             count == read_u32(d, pos + 4, bo)
             value_offset == read_u32(d, pos + 8, bo)
             coord == read_gps_coordinate(d, tiff_start, value_offset, bo)
         IN  CASE tag = 1 ->
                    IF format = 2 /\ count >= 1
                    THEN [acc EXCEPT !.lat_ref = Some(At(d, pos + 8))] ELSE acc
               [] tag = 2 ->
                    IF format = 5 /\ count = 3
                    THEN IF coord = Panic THEN [acc EXCEPT !.panic = TRUE]
                         ELSE [acc EXCEPT !.lat = coord]
                    ELSE acc
               [] tag = 3 ->
                    IF format = 2 /\ count >= 1
                    THEN [acc EXCEPT !.lon_ref = Some(At(d, pos + 8))] ELSE acc
               [] tag = 4 ->
                    IF format = 5 /\ count = 3
                    THEN IF coord = Panic THEN [acc EXCEPT !.panic = TRUE]
                         ELSE [acc EXCEPT !.lon = coord]
                    ELSE acc
               [] OTHER -> acc

RECURSIVE parse_gps_loop(_, _, _, _, _, _)
parse_gps_loop(d, tiff_start, pos, left, bo, acc) ==
    IF left = 0 \/ acc.panic THEN acc
    ELSE IF pos + 12 > Len(d) THEN acc
    ELSE parse_gps_loop(d, tiff_start, pos + 12, left - 1, bo,
                        parse_gps_entry(d, tiff_start, pos, bo, acc))

\* lines 162-173 of parse_gps_ifd: combine coordinates with references
combine_gps(acc) ==
    IF acc.panic THEN Panic
    ELSE IF acc.lat = None THEN None
    ELSE IF acc.lon = None THEN None
    ELSE LET final_lat == IF acc.lat_ref = Some(ChS) THEN Neg(acc.lat.v)
                          ELSE acc.lat.v
             final_lon == IF acc.lon_ref = Some(ChW) THEN Neg(acc.lon.v)
                          ELSE acc.lon.v
         IN  Some([lat |-> final_lat, lon |-> final_lon])

GpsAcc0 == [lat |-> None, lat_ref |-> None, lon |-> None, lon_ref |-> None,
            panic |-> FALSE]

parse_gps_ifd(d, tiff_start, gps_offset, bo) ==
    LET gps_pos == tiff_start + gps_offset
    IN  IF gps_pos + 2 > Len(d) THEN None
        ELSE IF ~InBounds(d, gps_pos, gps_pos + 2) THEN Panic
        ELSE combine_gps(parse_gps_loop(d, tiff_start, gps_pos + 2,
                                        read_u16(d, gps_pos, bo), bo, GpsAcc0))

\* The marker loop of find_exif_segment, one iteration at a time
\* (gps_parser.rs 62-76): the loop test and the two returns of an iteration
find_exif_segment_continues(d, pos) ==
    /\ pos + 4 < Len(d)
    /\ At(d, pos) = 255
    /\ ~(/\ At(d, pos + 1) = 225
         /\ pos + 10 < Len(d)
         /\ Slice(d, pos + 4, pos + 10) = ExifSig)

\* pos += length, a step that forgets the two bytes of the marker
find_exif_segment_advance_by_length(d, pos) ==
    pos + 256 * At(d, pos + 2) + At(d, pos + 3)

\* pos += 2 + length
find_exif_segment_advance(d, pos) ==
    pos + 2 + 256 * At(d, pos + 2) + At(d, pos + 3)

\* the positions at which the loop test is evaluated, at most fuel + 1
RECURSIVE find_exif_segment_trail(_, _, _)
find_exif_segment_trail(d, pos, fuel) ==
    IF fuel = 0 \/ ~find_exif_segment_continues(d, pos) THEN <<pos>>
    ELSE <<pos>> \o find_exif_segment_trail(
                        d, find_exif_segment_advance(d, pos), fuel - 1)

\* the number of iterations of the entry loop of find_gps_ifd_offset
\* (gps_parser.rs 91-105)
RECURSIVE find_gps_ifd_offset_iterations(_, _, _, _)
find_gps_ifd_offset_iterations(d, pos, left, bo) ==
    IF left = 0 THEN 0
    ELSE IF pos + 12 > Len(d) THEN 0
    ELSE IF read_u16(d, pos, bo) = 34853 THEN 1
    ELSE 1 + find_gps_ifd_offset_iterations(d, pos + 12, left - 1, bo)

\* the number of iterations of the entry loop of parse_gps_ifd
\* (gps_parser.rs 125-160)
RECURSIVE parse_gps_ifd_iterations(_, _, _)
parse_gps_ifd_iterations(d, pos, left) ==
    IF left = 0 THEN 0
    ELSE IF pos + 12 > Len(d) THEN 0
    ELSE 1 + parse_gps_ifd_iterations(d, pos + 12, left - 1)

\* lines 21-44 of extract_gps_from_malformed_exif: the EXIF segment, the TIFF
\* header, its byte order, magic and first-directory offset
tiff_header(d) ==
    LET seg == find_exif_segment(d)
    IN  IF ~IsSome(seg) THEN seg
        ELSE LET tiff_start == seg.v + 4 + 6
             IN  IF tiff_start + 8 > Len(d) THEN None
                 ELSE IF ~InBounds(d, tiff_start, tiff_start + 8) THEN Panic
                 ELSE LET mark == Slice(d, tiff_start, tiff_start + 2)
                      IN  IF mark # <<73, 73>> /\ mark # <<77, 77>> THEN None
                          ELSE LET bo == IF mark = <<73, 73>> THEN LE ELSE BE
                               IN  IF read_u16(d, tiff_start + 2, bo) # 42
                                   THEN None
                                   ELSE Some([tiff_start |-> tiff_start,
                                              byte_order |-> bo,
                                              ifd0_offset |->
                                                 read_u32(d, tiff_start + 4, bo)])

\* a scanner with a flag that outlives the call: once a call has returned,
\* a further call finds nothing
extract_gps_from_malformed_exif_once(d) ==
    IF pc = "done" THEN None
    ELSE LET h == tiff_header(d)
         IN  IF ~IsSome(h) THEN h
             ELSE LET gps == find_gps_ifd_offset(d, h.v.tiff_start,
                                                 h.v.ifd0_offset,
                                                 h.v.byte_order)
                  IN  IF ~IsSome(gps) THEN gps
                      ELSE parse_gps_ifd(d, h.v.tiff_start, gps.v,
                                         h.v.byte_order)

\* the scanner on the file's bytes (the file read itself succeeds)
extract_gps_from_malformed_exif(d) ==
    LET h == tiff_header(d)
    IN  IF ~IsSome(h) THEN h
        ELSE LET gps == find_gps_ifd_offset(d, h.v.tiff_start, h.v.ifd0_offset,
                                            h.v.byte_order)
             IN  IF ~IsSome(gps) THEN gps
                 ELSE parse_gps_ifd(d, h.v.tiff_start, gps.v, h.v.byte_order)

---------------------------------------------------------------------------
(* GPS resolver over the fields the EXIF library parsed:                   *)
(* src/exif_parser/generic.rs.  A field is [tag, ifd_num, vk, rats, str]:  *)
(* vk is the Value variant, rats its rationals, str its first Ascii string.*)

GPSLatitudeRef == 1

GPSLatitude == 2

GPSLongitudeRef == 3

GPSLongitude == 4

\* In::PRIMARY
PRIMARY == 0

\* exif.get_field(tag, ifd): the field of that tag in that directory
RECURSIVE get_field_from(_, _, _, _)
get_field_from(fields, tag, ifd, i) ==
    IF i > Len(fields) THEN None
    ELSE IF fields[i].tag = tag /\ fields[i].ifd_num = ifd THEN Some(fields[i])
    ELSE get_field_from(fields, tag, ifd, i + 1)

get_field(fields, tag, ifd) == get_field_from(fields, tag, ifd, 1)

\* field.display_value().to_string().chars().next() of the EXIF library:
\* GPSLatitudeRef shows N or S and GPSLongitudeRef E or W as the bare letter;
\* any other Ascii value is shown in double quotes
display_first_char(f) ==
    IF f.vk # "Ascii" THEN Some(48)
    ELSE IF f.tag = GPSLatitudeRef /\ (f.str = <<ChN>> \/ f.str = <<ChS>>)
         THEN Some(f.str[1])
    ELSE IF f.tag = GPSLongitudeRef /\ (f.str = <<ChE>> \/ f.str = <<ChW>>)
         THEN Some(f.str[1])
    ELSE Some(34)

\* the body shared by the Rational and the SRational branch: 3 values to a
\* decimal, negated for S / W
gps_decimal(coord, ref_val) ==
    LET decimal == DmsToDecimal(coord.rats[1], coord.rats[2], coord.rats[3])
        c == display_first_char(ref_val)
    IN  IF IsSome(c) /\ (c.v = ChS \/ c.v = ChW) THEN Neg(decimal) ELSE decimal

\* Value::Rational(vec) or Value::SRational(vec) with vec.len() == 3
is_rational3(f) ==
    /\ f.vk \in {"Rational", "SRational"}
    /\ Len(f.rats) = 3

try_get_gps_from_ifd(fields, coord_tag, ref_tag, ifd) ==
    LET coord_field == get_field(fields, coord_tag, ifd)
        ref_field == get_field(fields, ref_tag, ifd)
    IN  IF IsSome(coord_field) /\ IsSome(ref_field)
        THEN IF is_rational3(coord_field.v)
             THEN Some(gps_decimal(coord_field.v, ref_field.v))
             ELSE None
        ELSE None

\* the inner loop without the ifd_num comparison: any reference field pairs
RECURSIVE scan_ref_fields_any_ifd(_, _, _, _)
scan_ref_fields_any_ifd(fields, field, ref_tag, j) ==
    IF j > Len(fields) THEN None
    ELSE IF fields[j].tag = ref_tag /\ is_rational3(field)
         THEN Some(gps_decimal(field, fields[j]))
         ELSE scan_ref_fields_any_ifd(fields, field, ref_tag, j + 1)

\* inner loop of the fallback: the reference fields of the same directory
RECURSIVE scan_ref_fields(_, _, _, _)
scan_ref_fields(fields, field, ref_tag, j) ==
    IF j > Len(fields) THEN None
    ELSE IF fields[j].tag = ref_tag /\ fields[j].ifd_num = field.ifd_num
            /\ is_rational3(field)
         THEN Some(gps_decimal(field, fields[j]))
         ELSE scan_ref_fields(fields, field, ref_tag, j + 1)

\* outer loop of the fallback: every field carrying the coordinate tag
RECURSIVE scan_all_fields(_, _, _, _)
scan_all_fields(fields, coord_tag, ref_tag, i) ==
    IF i > Len(fields) THEN None
    ELSE LET found == IF fields[i].tag = coord_tag
                      THEN scan_ref_fields(fields, fields[i], ref_tag, 1)
                      ELSE None
         IN  IF IsSome(found) THEN found
             ELSE scan_all_fields(fields, coord_tag, ref_tag, i + 1)

get_gps_coord(fields, coord_tag, ref_tag) ==
    LET primary == try_get_gps_from_ifd(fields, coord_tag, ref_tag, PRIMARY)
    IN  IF IsSome(primary) THEN primary
        ELSE scan_all_fields(fields, coord_tag, ref_tag, 1)

---------------------------------------------------------------------------
(* Capture timestamp: get_datetime_from_exif of src/exif_parser/generic.rs *)
(* and the older get_datetime_from_exif of src/exif_parser.rs.  The Ascii  *)
(* string of a timestamp field is a sequence of tokens [c, n, w]: a run of *)
(* w decimal digits of value n (c = "#"), or the single character c.       *)

DateTimeOriginal == 36867

DateTime == 306

Num(n, w) == [c |-> "#", n |-> n, w |-> w]

Sep(c) == [c |-> c, n |-> 0, w |-> 0]

IsNum(t) == t.c = "#"

\* str::replace(from, to)
replace(s, from, to) ==
    [i \in 1..Len(s) |-> IF s[i] = Sep(from) THEN Sep(to) ELSE s[i]]

\* str::replacen(from, to, count): only the first count occurrences
replacen(s, from, to, count) ==
    [i \in 1..Len(s) |->
        IF /\ s[i] = Sep(from)
           /\ Cardinality({j \in 1..(i - 1) : s[j] = Sep(from)}) < count
        THEN Sep(to) ELSE s[i]]

\* str::split(sep): the pieces between the separators, empty pieces included
split(s, sep) ==
    LET cuts == {i \in 1..Len(s) : s[i] = Sep(sep)}
        n == Cardinality(cuts)
        cut(k) == IF k = 0 THEN 0
                  ELSE IF k = n + 1 THEN Len(s) + 1
                  ELSE CHOOSE i \in cuts :
                           Cardinality({j \in cuts : j <= i}) = k
    IN  [k \in 1..(n + 1) |-> SubSeq(s, cut(k - 1) + 1, cut(k) - 1)]

\* NaiveDate::from_ymd_opt: the days of a month of the proleptic Gregorian
\* calendar
days_in_month(year, month) ==
    IF month \in {4, 6, 9, 11} THEN 30
    ELSE IF month # 2 THEN 31
    ELSE IF year % 4 = 0 /\ (year % 100 # 0 \/ year % 400 = 0) THEN 29
    ELSE 28

\* NaiveDateTime::parse_from_str(s, "%Y-%m-%dT%H:%M:%S"): an unsigned year
\* of at most 4 digits, the other numbers of at most 2 digits, the literals
\* in between, nothing after the seconds, and a date and time that exist
\* (a second of 60 is a leap second)
parse_from_str(s) ==
    IF /\ Len(s) = 11
       /\ \A i \in {1, 3, 5, 7, 9, 11} : IsNum(s[i])
       /\ s[1].w <= 4
       /\ \A i \in {3, 5, 7, 9, 11} : s[i].w <= 2
       /\ s[2] = Sep("-") /\ s[4] = Sep("-") /\ s[6] = Sep("T")
       /\ s[8] = Sep(":") /\ s[10] = Sep(":")
       /\ s[3].n \in 1..12
       /\ s[5].n \in 1..days_in_month(s[1].n, s[3].n)
       /\ s[7].n <= 23 /\ s[9].n <= 59 /\ s[11].n <= 60
    THEN Ok([year |-> s[1].n, month |-> s[3].n, day |-> s[5].n,
             hour |-> s[7].n, min |-> s[9].n, sec |-> s[11].n])
    ELSE Err("parse")

\* the body of the loop over the two tags, generic.rs
try_datetime_tag(fields, tag) ==
    LET field == get_field(fields, tag, PRIMARY)
    IN  IF ~IsSome(field) THEN None
        ELSE IF field.v.vk # "Ascii" THEN None
        ELSE LET parsed ==
                     parse_from_str(
                         replacen(replace(field.v.str, " ", "T"), ":", "-", 2))
             IN  IF IsOk(parsed) THEN Some(parsed.v) ELSE None

get_datetime_from_exif(fields) ==
    LET original == try_datetime_tag(fields, DateTimeOriginal)
    IN  IF IsSome(original) THEN original
        ELSE try_datetime_tag(fields, DateTime)

\* dt.format("%Y-%m-%d %H:%M:%S")
format_datetime(dt) ==
    <<Num(dt.year, 4), Sep("-"), Num(dt.month, 2), Sep("-"), Num(dt.day, 2),
      Sep(" "), Num(dt.hour, 2), Sep(":"), Num(dt.min, 2), Sep(":"),
      Num(dt.sec, 2)>>

\* the body of the loop over the two tags, src/exif_parser.rs
try_datetime_tag_string(fields, tag) ==
    LET field == get_field(fields, tag, PRIMARY)
    IN  IF ~IsSome(field) THEN None
        ELSE IF field.v.vk # "Ascii" THEN None
        ELSE LET parts == split(field.v.str, " ")
             IN  IF Len(parts) # 2 THEN None
                 ELSE LET date_parts == split(parts[1], ":")
                          time_parts == split(parts[2], ":")
                      IN  IF Len(date_parts) = 3 /\ Len(time_parts) >= 2
                          THEN Some(<<Sep("Data s'emki: ")>> \o date_parts[3]
                                    \o <<Sep(".")>> \o date_parts[2]
                                    \o <<Sep(".")>> \o date_parts[1]
                                    \o <<Sep(" ")>> \o time_parts[1]
                                    \o <<Sep(":")>> \o time_parts[2])
                          ELSE None

\* get_datetime_from_exif of src/exif_parser.rs, which returns the string
\* shown to the user (its Russian label "date of shooting: " is written in
\* Latin letters here)
get_datetime_from_exif_string(fields) ==
    LET original == try_datetime_tag_string(fields, DateTimeOriginal)
    IN  IF IsSome(original) THEN original
        ELSE try_datetime_tag_string(fields, DateTime)


---------------------------------------------------------------------------
(* The EXIF library's raw parser, a collaborator: it rejects a buffer that *)
(* does not start with a TIFF header; otherwise its answer (Err, or Ok with*)
(* the parsed fields) is part of the input.                                *)

read_raw(bytes, answer) ==
    IF Len(bytes) >= 8
       /\ (SubSeq(bytes, 1, 4) = <<73, 73, 42, 0>>
           \/ SubSeq(bytes, 1, 4) = <<77, 77, 0, 42>>)
    THEN answer
    ELSE Err("InvalidFormat")

---------------------------------------------------------------------------
(* JPEG container scanner: src/exif_parser/jpeg.rs                         *)

\* data.len().saturating_sub(4)
saturating_sub4(n) == IF n < 4 THEN 0 ELSE n - 4

\* lines 40-48 with lat.is_some() || lng.is_some(): the missing one is 0.0
jpeg_exif_block_either(bytes, answer) ==
    LET exif == read_raw(bytes, answer)
        zero == [f |-> "Fin", n |-> 0, d |-> 1]
    IN  IF ~IsOk(exif) THEN None
        ELSE LET lat == get_gps_coord(exif.v, GPSLatitude, GPSLatitudeRef)
                 lng == get_gps_coord(exif.v, GPSLongitude, GPSLongitudeRef)
             IN  IF IsSome(lat) \/ IsSome(lng)
                 THEN Some([lat |-> IF IsSome(lat) THEN lat.v ELSE zero,
                            lon |-> IF IsSome(lng) THEN lng.v ELSE zero])
                 ELSE None

\* lines 40-48: parse the slice, resolve both coordinates
jpeg_exif_block(bytes, answer) ==
    LET exif == read_raw(bytes, answer)
    IN  IF ~IsOk(exif) THEN None
        ELSE LET lat == get_gps_coord(exif.v, GPSLatitude, GPSLatitudeRef)
                 lng == get_gps_coord(exif.v, GPSLongitude, GPSLongitudeRef)
             IN  IF IsSome(lat) /\ IsSome(lng)
                 THEN Some([lat |-> lat.v, lon |-> lng.v])
                 ELSE None

\* lines 16-19 and 61-63: i += 1 until a 0xFF byte or the end of the loop
\* range; the first index j >= i that the loop does not step over
next_ff(d, i) ==
    LET lim == saturating_sub4(Len(d))
        S == {j \in i..(lim - 1) : At(d, j) = 255}
    IN  IF S = {} THEN (IF i < lim THEN lim ELSE i)
        ELSE CHOOSE j \in S : \A k \in S : j <= k

RECURSIVE jpeg_custom_loop(_, _, _)
jpeg_custom_loop(d, answer, i0) ==
    LET i == next_ff(d, i0)
    IN
    IF ~(i < saturating_sub4(Len(d))) THEN Err("NotFound")
    ELSE IF ~InBounds(d, i, i + 4) THEN Panic
    ELSE LET marker == At(d, i + 1)
             segment_length == 256 * At(d, i + 2) + At(d, i + 3)
             segment_end == i + segment_length + 2
             exif_start == i + 10
             is_exif == i + 10 < Len(d) /\ Slice(d, i + 4, i + 10) = ExifSig
             is_tiff == /\ exif_start + 2 < Len(d)
                        /\ Slice(d, exif_start, exif_start + 2)
                              \in {<<73, 73>>, <<77, 77>>}
         IN  IF marker = 225
             THEN IF is_exif /\ is_tiff
                  THEN IF ~InBounds(d, exif_start, segment_end) THEN Panic
                       ELSE LET got == jpeg_exif_block(
                                          Slice(d, exif_start, segment_end),
                                          answer)
                            IN  IF IsSome(got) THEN Ok(got.v)
                                ELSE jpeg_custom_loop(d, answer, segment_end)
                  ELSE jpeg_custom_loop(d, answer, segment_end)
             ELSE IF (marker >= 224 /\ marker <= 239) \/ marker = 219
                     \/ marker = 196 \/ marker = 192
             THEN jpeg_custom_loop(d, answer, segment_end)
             ELSE IF marker = 218 THEN Err("NotFound")
             ELSE jpeg_custom_loop(d, answer, i + 1)

extract_metadata_from_jpeg_custom(d, answer) == jpeg_custom_loop(d, answer, 2)

\* The loop of the JPEG scanner, one marker at a time (jpeg.rs 14-64): the
\* loop test and the break at the start of scan, for i at a 0xFF byte or at
\* the end of the loop range
jpeg_custom_continues(d, i) ==
    /\ i < saturating_sub4(Len(d))
    /\ At(d, i + 1) # 218

\* the position after the iteration at a 0xFF byte when it neither returns
\* nor breaks
jpeg_custom_advance(d, i) ==
    LET marker == At(d, i + 1)
        segment_length == 256 * At(d, i + 2) + At(d, i + 3)
    IN  IF marker = 225 THEN i + segment_length + 2
        ELSE IF (marker >= 224 /\ marker <= 239) \/ marker = 219
                \/ marker = 196 \/ marker = 192
        THEN i + segment_length + 2
        ELSE i + 1

\* the positions of the markers the loop examines when no APP1 segment
\* ends the call (the bytes that are not 0xFF are stepped over one by one),
\* at most fuel + 1
RECURSIVE jpeg_custom_trail(_, _, _)
jpeg_custom_trail(d, i0, fuel) ==
    LET i == next_ff(d, i0)
    IN  IF fuel = 0 \/ ~jpeg_custom_continues(d, i) THEN <<i>>
        ELSE <<i>> \o jpeg_custom_trail(d, jpeg_custom_advance(d, i),
                                        fuel - 1)

---------------------------------------------------------------------------
(* JPEG path of the application, extract_metadata_from_jpeg: the strategy  *)
(* chain primary directory, all directories, malformed scanner.  answer is *)
(* the tolerant parse of the container by the EXIF library.                *)

extract_metadata_from_jpeg(d, answer) ==
    LET lat == IF IsOk(answer)
               THEN get_gps_coord(answer.v, GPSLatitude, GPSLatitudeRef)
               ELSE None
        lng == IF IsOk(answer)
               THEN get_gps_coord(answer.v, GPSLongitude, GPSLongitudeRef)
               ELSE None
        malformed == extract_gps_from_malformed_exif(d)
    IN  IF IsSome(lat) /\ IsSome(lng) THEN Ok([lat |-> lat.v, lon |-> lng.v])
        ELSE IF malformed = Panic THEN Panic
        ELSE IF IsSome(malformed) THEN Ok(malformed.v)
        ELSE Err("NotFound")

---------------------------------------------------------------------------
(* HEIC orchestration: src/exif_parser/heic.rs.  The demuxer's answers are *)
(* heif = [open, handle, blocks]; a block is [type, fetch, bytes, answer]. *)

starts_with(bytes, pre) ==
    Len(bytes) >= Len(pre) /\ SubSeq(bytes, 1, Len(pre)) = pre

\* lines 39-45
tiff_header_start(exif_data) ==
    IF Len(exif_data) > 4
       /\ starts_with(SubSeq(exif_data, 5, Len(exif_data)), ExifSig)
    THEN 10
    ELSE IF starts_with(exif_data, ExifSig) THEN 6
    ELSE 0

\* lines 47-58: one Exif block
heic_exif_block(exif_data, answer) ==
    LET start == tiff_header_start(exif_data)
    IN  IF Len(exif_data) > start
        THEN LET exif == read_raw(Slice(exif_data, start, Len(exif_data)),
                                  answer)
             IN  IF ~IsOk(exif) THEN None
                 ELSE LET lat == get_gps_coord(exif.v, GPSLatitude,
                                               GPSLatitudeRef)
                          lng == get_gps_coord(exif.v, GPSLongitude,
                                               GPSLongitudeRef)
                      IN  IF IsSome(lat) /\ IsSome(lng)
                          THEN Some([lat |-> lat.v, lon |-> lng.v])
                          ELSE None
        ELSE None

RECURSIVE heic_blocks_loop(_, _)
heic_blocks_loop(blocks, i) ==
    IF i > Len(blocks) THEN Err("GPS data not found in HEIF file")
    ELSE IF blocks[i].type = "Exif"
         THEN IF ~blocks[i].fetch THEN Err("Failed to get metadata")
              ELSE LET got == heic_exif_block(blocks[i].bytes, blocks[i].answer)
                   IN  IF IsSome(got) THEN Ok(got.v)
                       ELSE heic_blocks_loop(blocks, i + 1)
         ELSE heic_blocks_loop(blocks, i + 1)

\* the closure of lines 9-63
heic_result(h) ==
    IF ~h.open THEN Err("Failed to read HEIF context")
    ELSE IF ~h.handle THEN Err("Failed to get primary image handle")
    ELSE IF Len(h.blocks) = 0 THEN Err("No metadata found in HEIF file")
    ELSE heic_blocks_loop(h.blocks, 1)

\* the check on the first byte alone
is_jpeg_disguised_first_byte(d) == Len(d) >= 2 /\ d[1] = 255

\* lines 73-75: the first two bytes of the file are the JPEG SOI marker
is_jpeg_disguised(d) == Len(d) >= 2 /\ SubSeq(d, 1, 2) = <<255, 216>>

\* lines 65-81, after the closure: what the call does next
heic_after(r, d) ==
    IF IsOk(r) THEN "return"
    ELSE IF is_jpeg_disguised(d) THEN "delegate"
    ELSE "fail"

\* lines 7-82: the whole call on an openable path
extract_metadata_from_heic(h, d, answer) ==
    LET heic == heic_result(h)
    IN  IF heic_after(heic, d) = "delegate"
        THEN extract_metadata_from_jpeg(d, answer)
        ELSE heic

---------------------------------------------------------------------------
(* The test harness's own extraction, exif_parser_test/src/main.rs         *)

\* main.rs 280-294: 3 rationals to a decimal, negated when the first string
\* of an Ascii reference starts with S or W
our_decimal(coord, ref_field) ==
    LET decimal == DmsToDecimal(coord.rats[1], coord.rats[2], coord.rats[3])
    IN  IF ref_field.vk = "Ascii" /\ ref_field.str # <<>>
           /\ (ref_field.str[1] = ChS \/ ref_field.str[1] = ChW)
        THEN Neg(decimal) ELSE decimal

try_extract_from_ifd(fields, coord_tag, ref_tag, ifd) ==
    LET coord_field == get_field(fields, coord_tag, ifd)
        ref_field == get_field(fields, ref_tag, ifd)
    IN  IF ~IsSome(coord_field) THEN None
        ELSE IF ~IsSome(ref_field) THEN None
        ELSE IF coord_field.v.vk = "Rational" /\ Len(coord_field.v.rats) = 3
        THEN Some(our_decimal(coord_field.v, ref_field.v))
        ELSE None

\* main.rs 243-268: the reference fields of the same directory
RECURSIVE our_scan_ref_fields(_, _, _, _)
our_scan_ref_fields(fields, field, ref_tag, j) ==
    IF j > Len(fields) THEN None
    ELSE IF fields[j].tag = ref_tag /\ fields[j].ifd_num = field.ifd_num
            /\ field.vk = "Rational" /\ Len(field.rats) = 3
         THEN Some(our_decimal(field, fields[j]))
         ELSE our_scan_ref_fields(fields, field, ref_tag, j + 1)

\* main.rs 240-270: every field with the coordinate tag
RECURSIVE our_scan_all_fields(_, _, _, _)
our_scan_all_fields(fields, coord_tag, ref_tag, i) ==
    IF i > Len(fields) THEN None
    ELSE LET got == IF fields[i].tag = coord_tag
                    THEN our_scan_ref_fields(fields, fields[i], ref_tag, 1)
                    ELSE None
         IN  IF IsSome(got) THEN got
             ELSE our_scan_all_fields(fields, coord_tag, ref_tag, i + 1)

extract_single_gps_coord(fields, coord_tag, ref_tag) ==
    LET primary == try_extract_from_ifd(fields, coord_tag, ref_tag, PRIMARY)
    IN  IF IsSome(primary) THEN primary
        ELSE our_scan_all_fields(fields, coord_tag, ref_tag, 1)

parse_exif_gps(fields) ==
    LET lat == extract_single_gps_coord(fields, GPSLatitude, GPSLatitudeRef)
        lon == extract_single_gps_coord(fields, GPSLongitude, GPSLongitudeRef)
    IN  IF ~IsSome(lat) THEN None
        ELSE IF ~IsSome(lon) THEN None
        ELSE Some([lat |-> lat.v, lon |-> lon.v])

\* main.rs 202-224, the JPG/TIFF branch of extract_gps_our: answer is the
\* tolerant parse of the container (the fields of a complete or of a partial
\* result, or an error)
extract_gps_our_jpeg(answer) ==
    IF IsOk(answer) THEN parse_exif_gps(answer.v) ELSE None

---------------------------------------------------------------------------
(* process_file_to_metadata: src/processing.rs                             *)

SupportedFormats == {"jpg", "jpeg", "heic", "heif", "avif"}

is_heif(e) == e \in {"heic", "heif", "avif"}

\* lines 266-282: the branch for the other formats
generic_metadata(answer) ==
    IF ~IsOk(answer) THEN Err("exif")
    ELSE LET lat == get_gps_coord(answer.v, GPSLatitude, GPSLatitudeRef)
             lng == get_gps_coord(answer.v, GPSLongitude, GPSLongitudeRef)
         IN  IF lat = None \/ lng = None THEN Err("GPS data not found")
             ELSE Ok([lat |-> lat.v, lon |-> lng.v])

\* A directory entry is f = [name, utf8, visible, e, d, a, h]: e is the
\* lower-cased extension, utf8 tells whether the path is valid UTF-8.

\* lines 257-283: the extraction chosen by the extension (heic.rs line 10
\* unwraps path.to_str())
extraction(f) ==
    IF is_heif(f.e)
    THEN IF f.utf8 THEN extract_metadata_from_heic(f.h, f.d, f.a) ELSE Panic
    ELSE IF f.e = "jpg" \/ f.e = "jpeg"
         THEN extract_metadata_from_jpeg(f.d, f.a)
         ELSE generic_metadata(f.a)

\* lines 257-309: the ? on the extraction, then the record (lines 290-293
\* turn a file name that is not UTF-8 into an error)
photo_metadata(f, got) ==
    IF ~IsOk(got) THEN got
    ELSE IF ~f.utf8 THEN Err("Invalid file name")
    ELSE Ok([filename |-> f.name, lat |-> got.v.lat, lng |-> got.v.lon,
             is_heic |-> is_heif(f.e)])

\* lines 237-310
process_file_to_metadata(f) ==
    IF f.e \notin SupportedFormats THEN Err("File is not a supported image")
    ELSE photo_metadata(f, extraction(f))

---------------------------------------------------------------------------
(* process_photos_with_stats: src/processing.rs.  The directory is a set   *)
(* of entries; the workers of the thread pool take the discovered entries  *)
(* in any order, each folding into its own accumulator                     *)
(* [all_photos, total_files, heic_count].                                  *)

\* lines 57-93: the entries that pass the walker's filters
discovered(entries) ==
    {f \in entries : f.visible /\ f.e \in {"jpg", "jpeg", "heic", "heif", "avif"}}

\* line 96
Acc0 == [all_photos |-> <<>>, total_files |-> 0, heic_count |-> 0]

\* lines 97-117: one entry folded into a worker's accumulator, r being what
\* process_file_to_metadata returned for it; a panic of the extraction
\* unwinds the worker
fold_step(acc, f, r) ==
    IF r = Panic THEN Panic
    ELSE IF IsOk(r)
    THEN [all_photos |-> Append(acc.all_photos, r.v),
          total_files |-> acc.total_files + 1,
          heic_count |-> IF f.e \in {"heic", "heif"} THEN acc.heic_count + 1
                         ELSE acc.heic_count]
    ELSE [all_photos |-> acc.all_photos,
          total_files |-> acc.total_files + 1,
          heic_count |-> IF f.e \in {"heic", "heif"} THEN acc.heic_count + 1
                         ELSE acc.heic_count]

\* a reduction that keeps the counters of the first accumulator only
RECURSIVE reduce_first_counters(_, _)
reduce_first_counters(accs, i) ==
    IF i > Len(accs) THEN Acc0
    ELSE LET b == reduce_first_counters(accs, i + 1)
         IN  IF accs[i] = Panic \/ b = Panic THEN Panic
             ELSE [all_photos |-> accs[i].all_photos \o b.all_photos,
                   total_files |-> accs[i].total_files,
                   heic_count |-> accs[i].heic_count]

\* lines 119-127: the accumulators combined; the panic of a worker is
\* raised again in the caller
RECURSIVE reduce(_, _)
reduce(accs, i) ==
    IF i > Len(accs) THEN Acc0
    ELSE LET b == reduce(accs, i + 1)
         IN  IF accs[i] = Panic \/ b = Panic THEN Panic
             ELSE [all_photos |-> accs[i].all_photos \o b.all_photos,
                   total_files |-> accs[i].total_files + b.total_files,
                   heic_count |-> accs[i].heic_count + b.heic_count]

\* lines 295-309: the paths of the record of a photo found in the directory
\* named dir; relative_path is relative to that directory
row(dir, photo) ==
    [relative_path |-> photo.filename, file_path |-> <<dir, photo.filename>>,
     lat |-> photo.lat, lng |-> photo.lng, is_heic |-> photo.is_heic]

\* db.insert_photos_batch(&all_photos), line 137, a method of the database
\* whose answer is an input: every row written ("all"), every row but the
\* first ("some"), or an error that leaves the table alone ("fail"); a row
\* replaces the row of the same relative_path, as in insert_photo
\* (database.rs 105, 150)
insert_photos_batch(tbl, dir, all_photos, answer) ==
    LET taken == IF answer = "all" THEN 1..Len(all_photos)
                 ELSE IF answer = "some" THEN 2..Len(all_photos)
                 ELSE {}
        new == {row(dir, all_photos[i]) : i \in taken}
    IN  IF answer = "fail" THEN [table |-> tbl, r |-> Err("db")]
        ELSE [table |-> {x \in tbl :
                            \A y \in new : y.relative_path # x.relative_path}
                        \cup new,
              r |-> Ok(Cardinality(taken))]

ZeroStats ==
    [total_files |-> 0, processed_count |-> 0, gps_count |-> 0,
     no_gps_count |-> 0, heic_count |-> 0]

\* lines 129-213: the batch insert and the tuple returned
insert_and_count(tbl, dir, reduction, answer) ==
    LET ins == insert_photos_batch(tbl, dir, reduction.all_photos, answer)
        successful_count == IF IsOk(ins.r) THEN ins.r.v ELSE 0
    IN  [table |-> ins.table,
         r |-> Ok([total_files |-> reduction.total_files,
                   processed_count |-> successful_count,
                   gps_count |-> successful_count,
                   no_gps_count |-> reduction.total_files - successful_count,
                   heic_count |-> reduction.heic_count])]

\* lines 53-128 run by one worker after the other, on files that carry
\* what process_file_to_metadata returns for them: f.outcome is Ok with the
\* record, an Err, or Panic
pick(S) == CHOOSE g \in S : TRUE

fold_entry(rest, f) ==
    IF rest = Panic THEN Panic
    ELSE fold_step(rest, f, f.outcome)

RECURSIVE fold_all(_)
fold_all(S) ==
    IF S = {} THEN Acc0
    ELSE fold_entry(fold_all(S \ {pick(S)}), pick(S))

\* lines 129-213 after the reduction; the panic of a worker is raised again
\* in the caller
after_reduction(tbl, dir, reduction, answer) ==
    IF reduction = Panic THEN [table |-> tbl, r |-> Panic]
    ELSE insert_and_count(tbl, dir, reduction, answer)

\* the same call with the table cleared before the directory is looked for
process_photos_with_stats_clear_first(tbl, dir, silent, clear, clears, answer) ==
    IF clear /\ ~clears THEN [table |-> tbl, r |-> Err("db")]
    ELSE IF ~dir.exists
    THEN [table |-> IF clear THEN {} ELSE tbl,
          r |-> IF silent THEN Err("Photos directory not found")
                ELSE Ok(ZeroStats)]
    ELSE after_reduction(IF clear THEN {} ELSE tbl, dir.name,
                         fold_all(discovered(dir.files)), answer)

\* lines 14-214 on the directory dir = [name, exists, files] and the table
\* tbl of the database, as one step; clears tells whether clear_all_photos
\* succeeds, answer is the answer of insert_photos_batch
process_photos_with_stats(tbl, dir, silent, clear, clears, answer) ==
    IF ~dir.exists
    THEN [table |-> tbl,
          r |-> IF silent THEN Err("Photos directory not found")
                ELSE Ok(ZeroStats)]
    ELSE IF clear /\ ~clears THEN [table |-> tbl, r |-> Err("db")]
    ELSE after_reduction(IF clear THEN {} ELSE tbl, dir.name,
                         fold_all(discovered(dir.files)), answer)

\* lines 223-234
process_photos_from_directory(tbl, dir, clears, answer) ==
    process_photos_with_stats(tbl, dir, FALSE, TRUE, clears, answer)

---------------------------------------------------------------------------
(* The processing requests of the server: src/server/handlers.rs.  run is  *)
(* the background task a request spawned: [kind, folders, next, stats] with*)
(* next the index of the folder its loop is at; events are the events sent *)
(* on the channel, in order; table is the photos table of the database.    *)

\* lines 475-476 and 368-369
add_stats(total_stats, s) ==
    [total_files |-> total_stats.total_files + s.total_files,
     processed_count |-> total_stats.processed_count + s.processed_count,
     gps_count |-> total_stats.gps_count + s.gps_count,
     no_gps_count |-> total_stats.no_gps_count + s.no_gps_count,
     heic_count |-> total_stats.heic_count + s.heic_count]

\* lines 494-506 and 390-402
processing_error(message, dir) ==
    [event_type |-> "processing_error", message |-> message, dir |-> dir]

\* lines 518-535 and 407-424
processing_complete(total_stats, folder_count) ==
    [event_type |-> "processing_complete",
     total_files |-> total_stats.total_files,
     processed |-> total_stats.processed_count,
     gps_found |-> total_stats.gps_count,
     no_gps |-> total_stats.no_gps_count,
     heic_files |-> total_stats.heic_count,
     skipped |-> total_stats.total_files - total_stats.processed_count,
     folders |-> folder_count]

---------------------------------------------------------------------------
(* Settings: src/settings.rs.  The configuration file is                   *)
(* [exists, writable, content, writes]: content is its lines, a line is a  *)
(* sequence of tokens (a word, a number, "=", "#", a blank " ", a quote),  *)
(* writes counts the times the file was written.  A directory that is not  *)
(* writable makes create_dir_all / open fail.                              *)

\* lines 16-25
DefaultSettings ==
    [last_folder |-> None, start_browser |-> TRUE, top |-> 12, left |-> 52]

\* line 102
HeaderLine == <<"#", " PhotoMap Configuration File">>

\* Display of bool and of i32, on the values the model uses
FormatBool(b) == IF b THEN "true" ELSE "false"

FormatI32(n) ==
    CASE n = 12 -> "12" [] n = 52 -> "52" [] n = 0 -> "0" [] n = 3 -> "3"
      [] n = -7 -> "-7"

\* str::parse::<bool> and str::parse::<i32> of a trimmed value
ParseBool(v) ==
    IF v = <<"true">> THEN Ok(TRUE)
    ELSE IF v = <<"false">> THEN Ok(FALSE)
    ELSE Err("parse")

ParseI32(v) ==
    IF v = <<"12">> THEN Ok(12)
    ELSE IF v = <<"52">> THEN Ok(52)
    ELSE IF v = <<"0">> THEN Ok(0)
    ELSE IF v = <<"3">> \/ v = <<"+3">> THEN Ok(3)
    ELSE IF v = <<"-7">> THEN Ok(-7)
    ELSE Err("parse")

\* save that leaves the line of left out
save_without_left(settings, cfg) ==
    IF ~cfg.writable THEN [r |-> Err("io"), config |-> cfg]
    ELSE [r |-> Ok(TRUE),
          config |->
             [cfg EXCEPT
                !.exists = TRUE,
                !.writes = @ + 1,
                !.content =
                   <<HeaderLine>>
                   \o (IF IsSome(settings.last_folder)
                       THEN <<<<"last_folder", " ", "=", " ", "\"">>
                              \o settings.last_folder.v \o <<"\"">>>>
                       ELSE <<>>)
                   \o <<<<"start_browser", " ", "=", " ",
                          FormatBool(settings.start_browser)>>,
                        <<"top", " ", "=", " ", FormatI32(settings.top)>>>>]]

\* lines 86-115
save(settings, cfg) ==
    IF ~cfg.writable THEN [r |-> Err("io"), config |-> cfg]
    ELSE [r |-> Ok(TRUE),
          config |->
             [cfg EXCEPT
                !.exists = TRUE,
                !.writes = @ + 1,
                !.content =
                   <<HeaderLine>>
                   \o (IF IsSome(settings.last_folder)
                       THEN <<<<"last_folder", " ", "=", " ", "\"">>
                              \o settings.last_folder.v \o <<"\"">>>>
                       ELSE <<>>)
                   \o <<<<"start_browser", " ", "=", " ",
                          FormatBool(settings.start_browser)>>,
                        <<"top", " ", "=", " ", FormatI32(settings.top)>>,
                        <<"left", " ", "=", " ",
                          FormatI32(settings.left)>>>>]]

\* str::trim and str::trim_matches on a sequence of tokens
RECURSIVE trim_matches(_, _)
trim_matches(v, c) ==
    IF v = <<>> THEN v
    ELSE IF Head(v) = c THEN trim_matches(Tail(v), c)
    ELSE IF v[Len(v)] = c THEN trim_matches(SubSeq(v, 1, Len(v) - 1), c)
    ELSE v

trim(v) == trim_matches(v, " ")

\* str::split_once('=')
RECURSIVE split_once(_, _)
split_once(line, i) ==
    IF i > Len(line) THEN None
    ELSE IF line[i] = "=" THEN Some([key |-> SubSeq(line, 1, i - 1),
                                     value |-> SubSeq(line, i + 1, Len(line))])
    ELSE split_once(line, i + 1)

\* lines 42-50: the map of the file's key = value lines; a later line
\* replaces an earlier one with the same key
RECURSIVE config_map(_, _)
config_map(content, n) ==
    IF n = 0 THEN <<>>
    ELSE LET line == content[n]
             before == config_map(content, n - 1)
             kv == split_once(line, 1)
         IN  IF (line # <<>> /\ Head(line) = "#") \/ trim(line) = <<>>
             THEN before
             ELSE IF IsSome(kv)
                  THEN Append(SelectSeq(before,
                                        LAMBDA e : e.key # trim(kv.v.key)),
                              [key |-> trim(kv.v.key),
                               value |-> trim(kv.v.value)])
                  ELSE before

contains_key(map, key) == \E i \in 1..Len(map) : map[i].key = <<key>>

get(map, key) == (CHOOSE i \in 1..Len(map) : map[i].key = <<key>>)

\* lines 28-84
load(cfg) ==
    IF ~cfg.exists
    THEN LET saved == save(DefaultSettings, cfg)
         IN  IF IsOk(saved.r)
             THEN [r |-> Ok(DefaultSettings), config |-> saved.config]
             ELSE [r |-> Err("Failed to create default settings file"),
                   config |-> saved.config]
    ELSE LET map == config_map(cfg.content, Len(cfg.content))
             value(key) == map[get(map, key)].value
             s1 == IF contains_key(map, "last_folder")
                   THEN [DefaultSettings EXCEPT !.last_folder =
                            Some(trim_matches(value("last_folder"), "\""))]
                   ELSE DefaultSettings
             s2 == IF contains_key(map, "start_browser")
                      /\ IsOk(ParseBool(trim(value("start_browser"))))
                   THEN [s1 EXCEPT !.start_browser =
                            ParseBool(trim(value("start_browser"))).v]
                   ELSE s1
             s3 == IF contains_key(map, "top")
                      /\ IsOk(ParseI32(trim(value("top"))))
                   THEN [s2 EXCEPT !.top = ParseI32(trim(value("top"))).v]
                   ELSE s2
             s4 == IF contains_key(map, "left")
                      /\ IsOk(ParseI32(trim(value("left"))))
                   THEN [s3 EXCEPT !.left = ParseI32(trim(value("left"))).v]
                   ELSE s3
             needs_save == ~contains_key(map, "top")
                           \/ ~contains_key(map, "left")
         IN  [r |-> Ok(s4),
              config |-> IF needs_save THEN save(s4, cfg).config ELSE cfg]

---------------------------------------------------------------------------
(* Input files: a JPEG with one APP1/EXIF segment holding IFD0 (with the   *)
(* GPS-IFD pointer), IFD0's next-directory link, the latitude and          *)
(* longitude values and the GPS directory; every untrusted field is a      *)
(* parameter.                                                              *)

\* declared entry counts range over 0 .. actual + MaxDecl
MaxDecl == 1

\* trailing truncations of the file: CutBytes(0 .. MaxCut)
MaxCut == 3

\* segments skipped before the APP1 segment
MaxPre == 1

U16(bo, v) ==
    IF bo = LE THEN <<v % 256, v \div 256>> ELSE <<v \div 256, v % 256>>

U32(bo, v) ==
    IF bo = LE
    THEN <<v % 256, (v \div 256) % 256, (v \div 65536) % 256, v \div 16777216>>
    ELSE <<v \div 16777216, (v \div 65536) % 256, (v \div 256) % 256, v % 256>>

RECURSIVE Flat(_)
Flat(ss) == IF ss = <<>> THEN <<>> ELSE Head(ss) \o Flat(Tail(ss))

\* an offset past the end of every file built here
FarOff == 256 * 256

\* offsets from the TIFF header
LinkOff(p) == 8 + 2 + 12 * Len(p.tags0)

LatOff(p) == LinkOff(p) + 4

LonOff(p) == LatOff(p) + 24

GpsOff(p) == LonOff(p) + 24

Target(p, to) ==
    CASE to = "gps" -> GpsOff(p)
      [] to = "lat" -> LatOff(p)
      [] to = "lon" -> LonOff(p)
      [] to = "link" -> LinkOff(p)
      [] to = "ifd0" -> 8
      [] OTHER -> FarOff

\* a 12-byte directory entry
EntryBytes(p, e) ==
    U16(p.bo, e.tag) \o U16(p.bo, e.fmt) \o U32(p.bo, e.count)
    \o (IF e.to = "inline" THEN <<e.chr, 0, 0, 0>>
        ELSE U32(p.bo, Target(p, e.to)))

RatBytes(p, rs) ==
    Flat([i \in 1..Len(rs) |-> U32(p.bo, rs[i].n) \o U32(p.bo, rs[i].d)])

TiffBytes(p) ==
    (IF p.mark = "ok" THEN (IF p.bo = LE THEN <<73, 73>> ELSE <<77, 77>>)
     ELSE <<90, 90>>)
    \o U16(p.bo, p.magic)
    \o U32(p.bo, Target(p, p.ifd0))
    \o U16(p.bo, p.n0)
    \o Flat([i \in 1..Len(p.tags0) |-> EntryBytes(p, p.tags0[i])])
    \o U32(p.bo, p.link)
    \o RatBytes(p, p.lat) \o RatBytes(p, p.lon)
    \o U16(p.bo, p.m)
    \o Flat([i \in 1..Len(p.ents) |-> EntryBytes(p, p.ents[i])])
    \o <<0, 0, 0, 0>>

\* a skipped APP0 segment of declared length 4
PreSegment == <<255, 224, 0, 4, 0, 0>>

\* size of the TIFF block
TiffLen(p) == 8 + 2 + 12 * Len(p.tags0) + 4 + 8 * Len(p.lat) + 8 * Len(p.lon)
              + 2 + 12 * Len(p.ents) + 4

SegLen(p) ==
    CASE p.seg = "exact" -> 2 + 6 + TiffLen(p)
      [] p.seg = "short" -> 2
      [] OTHER -> 2 + 6 + TiffLen(p) + 40

CutBytes(k) == IF k = 0 THEN 0 ELSE 4 + 6 * (k - 1)

FullFile(p) ==
    <<255, 216>> \o Flat([i \in 1..p.pre |-> PreSegment])
    \o <<255, 225>> \o U16(BE, SegLen(p)) \o ExifSig \o TiffBytes(p)

FullLen(p) == 2 + 6 * p.pre + 4 + 6 + TiffLen(p)

Build(p) == SubSeq(FullFile(p), 1, FullLen(p) - p.cut)

Ascii(tag, c) == [tag |-> tag, fmt |-> 2, count |-> 2, to |-> "inline", chr |-> c]

Coord(tag, fmt, count, to) ==
    [tag |-> tag, fmt |-> fmt, count |-> count, to |-> to, chr |-> 0]

Make == [tag |-> 271, fmt |-> 2, count |-> 1, to |-> "inline", chr |-> 65]

GpsPtr(to) == [tag |-> 34853, fmt |-> 4, count |-> 1, to |-> to, chr |-> 0]

\* 48 deg 52' 30" and 2 deg 21' 6"
Lat0 == <<Rat(48, 1), Rat(52, 1), Rat(30, 1)>>

Lon0 == <<Rat(2, 1), Rat(21, 1), Rat(6, 1)>>

Base ==
    [bo |-> LE, mark |-> "ok", magic |-> 42, pre |-> 0, seg |-> "exact",
     ifd0 |-> "ifd0", tags0 |-> <<Make, GpsPtr("gps")>>, n0 |-> 2, link |-> 0,
     m |-> 4,
     ents |-> <<Ascii(1, ChN), Coord(2, 5, 3, "lat"),
                Ascii(3, ChE), Coord(4, 5, 3, "lon")>>,
     lat |-> Lat0, lon |-> Lon0, cut |-> 0]

\* contents of the next-directory link: zero, garbage, an offset past the buffer
LinkValues == {0, 258, FarOff}

\* IFD0 and its link
Ifd0Params ==
    {[Base EXCEPT !.bo = bo, !.ifd0 = i0, !.n0 = n, !.link = l, !.pre = pre,
                  !.tags0 = <<Make, GpsPtr(g)>>] :
        bo \in {LE, BE}, i0 \in {"ifd0", "far"}, n \in 0..(2 + MaxDecl),
        l \in LinkValues, pre \in 0..MaxPre, g \in {"gps", "link", "far"}}

\* GPS directory: declared count, truncation, value offsets
GpsDirParams ==
    {[Base EXCEPT !.bo = bo, !.m = m, !.cut = CutBytes(c), !.link = l,
                  !.ents = <<Ascii(1, ChN), Coord(2, 5, 3, to),
                             Ascii(3, ChE), Coord(4, 5, 3, "lon")>>] :
        bo \in {LE, BE}, m \in 0..(4 + MaxDecl), c \in 0..MaxCut,
        l \in {0, 258}, to \in {"lat", "link", "far"}}

\* GPS directory without reference entries, coordinates first
NoRefParams ==
    {[Base EXCEPT !.m = m, !.cut = CutBytes(c),
                  !.ents = <<Coord(2, 5, 3, "lat"), Coord(4, 5, 3, "lon")>>
                           \o refs] :
        m \in 0..(3 + MaxDecl), c \in 0..MaxCut,
        refs \in {<<>>, <<Ascii(1, ChS)>>, <<Ascii(3, ChW)>>}}

RefChars == {ChN, ChS, ChE, ChW}

LatValues ==
    {Lat0, <<Rat(91, 1), Rat(0, 1), Rat(0, 1)>>,
     <<Rat(48, 1), Rat(105, 2), Rat(0, 1)>>,
     <<Rat(48, 0), Rat(52, 1), Rat(30, 1)>>,
     <<Rat(48, 1), Rat(52, 1), Rat(0, 0)>>}

LonValues ==
    {Lon0, <<Rat(181, 1), Rat(0, 1), Rat(0, 1)>>,
     <<Rat(2, 1), Rat(21, 0), Rat(6, 1)>>}

\* values: reference characters, rationals, formats and counts
ValueParams ==
    {[Base EXCEPT !.lat = la, !.lon = lo,
                  !.ents = <<Ascii(1, r1), Coord(2, f, 3, "lat"),
                             Ascii(3, r2), Coord(4, 5, n, "lon")>>] :
        la \in LatValues, lo \in LonValues, r1 \in RefChars, r2 \in RefChars,
        f \in {5, 10}, n \in {2, 3}}

\* header and segment length
HeaderParams ==
    {[Base EXCEPT !.bo = bo, !.mark = mk, !.magic = mg, !.seg = sg,
                  !.pre = pre, !.cut = CutBytes(c)] :
        bo \in {LE, BE}, mk \in {"ok", "bad"}, mg \in {42, 43},
        sg \in {"exact", "short", "long"}, pre \in 0..MaxPre, c \in 0..MaxCut}

\* every prefix of the well-formed file
PrefixParams ==
    {[Base EXCEPT !.bo = bo, !.cut = c] :
        bo \in {LE, BE}, c \in 0..FullLen(Base)}

\* a latitude reference of count 2 or 5 whose last 4 bytes are the offset of
\* the latitude value: its first byte there is 'S' (83 degrees, little-endian)
LongRefParams ==
    {[Base EXCEPT !.lat = <<Rat(ChS, 1), Rat(52, 1), Rat(30, 1)>>,
                  !.ents = <<[tag |-> 1, fmt |-> 2, count |-> c, to |-> "lat",
                              chr |-> 0],
                             Coord(2, 5, 3, "lat"), Ascii(3, r),
                             Coord(4, 5, 3, "lon")>>] :
        c \in {2, 5}, r \in {ChE, ChW}}

Params ==
    Ifd0Params \cup GpsDirParams \cup NoRefParams \cup ValueParams
    \cup HeaderParams \cup PrefixParams

Files == {Build(p) : p \in Params}

---------------------------------------------------------------------------
(* Answers of the EXIF library: the parsed fields, or an error             *)

Field(tag, ifd, vk, rats, str) ==
    [tag |-> tag, ifd_num |-> ifd, vk |-> vk, rats |-> rats, str |-> str]

LatFields ==
    {<<>>} \cup
    {<<Field(GPSLatitude, ifd, vk, rats, <<>>)>> :
        ifd \in {0, 1}, vk \in {"Rational", "SRational"},
        rats \in LatValues \cup {<<Rat(48, 1), Rat(52, 1)>>}}

LatRefFields ==
    {<<>>} \cup
    {<<Field(GPSLatitudeRef, x[1], "Ascii", <<>>, <<x[2]>>)>> :
        x \in {<<0, ChN>>, <<0, ChS>>, <<1, ChS>>, <<0, ChW>>}}

LonFields ==
    {<<>>} \cup
    {<<Field(GPSLongitude, ifd, "Rational", rats, <<>>)>> :
        ifd \in {0, 1}, rats \in LonValues}

LonRefFields ==
    {<<>>} \cup
    {<<Field(GPSLongitudeRef, x[1], "Ascii", <<>>, <<x[2]>>)>> :
        x \in {<<0, ChE>>, <<0, ChW>>, <<1, ChW>>}}

FieldLists ==
    {r1 \o c1 \o r2 \o c2 :
        r1 \in LatRefFields, c1 \in LatFields, r2 \in LonRefFields,
        c2 \in LonFields}

GoodFields ==
    <<Field(GPSLatitudeRef, 0, "Ascii", <<>>, <<ChN>>),
      Field(GPSLatitude, 0, "Rational", Lat0, <<>>),
      Field(GPSLongitudeRef, 0, "Ascii", <<>>, <<ChE>>),
      Field(GPSLongitude, 0, "Rational", Lon0, <<>>)>>

\* latitude only
LatOnlyFields == SubSeq(GoodFields, 1, 2)

LibAnswers == {Err("exif")} \cup {Ok(fs) : fs \in FieldLists}

---------------------------------------------------------------------------
(* Timestamp fields in the answers of the EXIF library                     *)

Stamp(y, mo, d, h, mi, sec) ==
    <<Num(y, 4), Sep(":"), Num(mo, 2), Sep(":"), Num(d, 2), Sep(" "),
      Num(h, 2), Sep(":"), Num(mi, 2), Sep(":"), Num(sec, 2)>>

Stamp1 == Stamp(2024, 2, 29, 12, 30, 45)

Stamp2 == Stamp(2023, 12, 31, 23, 59, 59)

\* well-formed stamps; a stamp without seconds; "T" for the blank; dashes
\* in the date; a clock that was never set; a day that does not exist; an
\* empty string; a word; separators only
DateStrings ==
    {Stamp1, Stamp2,
     SubSeq(Stamp1, 1, 9),
     [Stamp1 EXCEPT ![6] = Sep("T")],
     [Stamp1 EXCEPT ![2] = Sep("-"), ![4] = Sep("-")],
     Stamp(0, 0, 0, 0, 0, 0),
     Stamp(2023, 2, 29, 12, 30, 45),
     <<>>,
     <<Sep("unknown")>>,
     <<Sep(":"), Sep(":"), Sep(" "), Sep(":")>>}

DateFields(tag) ==
    {<<>>} \cup
    {<<Field(tag, 0, "Ascii", <<>>, s)>> : s \in DateStrings} \cup
    {<<Field(tag, 1, "Ascii", <<>>, Stamp2)>>,
     <<Field(tag, 0, "Undefined", <<>>, Stamp2)>>}

DateFieldLists ==
    {coords \o original \o plain :
        coords \in {GoodFields, LatOnlyFields},
        original \in DateFields(DateTimeOriginal),
        plain \in DateFields(DateTime)}

---------------------------------------------------------------------------
(* Answers of the HEIF demuxer                                             *)

\* metadata blocks per image
MaxBlocks == 2

TiffStub == <<73, 73, 42, 0, 8, 0, 0, 0, 0, 0>>

ExifBlock(bytes, answer) ==
    [type |-> "Exif", fetch |-> TRUE, bytes |-> bytes, answer |-> answer]

Blocks ==
    {[type |-> "mime", fetch |-> TRUE, bytes |-> <<>>, answer |-> Err("exif")],
     [type |-> "Exif", fetch |-> FALSE, bytes |-> <<>>, answer |-> Err("exif")],
     ExifBlock(TiffStub, Err("exif")),
     ExifBlock(TiffStub, Ok(GoodFields)),
     ExifBlock(ExifSig \o TiffStub, Ok(GoodFields)),
     ExifBlock(<<0, 0, 0, 6>> \o ExifSig \o TiffStub, Ok(LatOnlyFields)),
     ExifBlock(ExifSig, Ok(GoodFields)),
     ExifBlock(<<73, 73, 42, 0>> \o ExifSig \o TiffStub, Ok(GoodFields))}

RECURSIVE SeqsUpTo(_, _)
SeqsUpTo(S, n) ==
    IF n = 0 THEN {<<>>}
    ELSE SeqsUpTo(S, n - 1)
         \cup {Append(q, x) : q \in {t \in SeqsUpTo(S, n - 1) : Len(t) = n - 1},
                              x \in S}

NoHeif == [open |-> FALSE, handle |-> FALSE, blocks |-> <<>>]

HeifAnswers ==
    {NoHeif, [open |-> TRUE, handle |-> FALSE, blocks |-> <<>>]}
    \cup {[open |-> TRUE, handle |-> TRUE, blocks |-> bs] :
             bs \in SeqsUpTo(Blocks, MaxBlocks)}

\* an ISO-BMFF file start ("ftyp" box)
FtypBytes == <<0, 0, 0, 24, 102, 116, 121, 112, 104, 101, 105, 99>>

\* a JPEG whose GPS directory holds the latitude only
LatOnlyJpeg ==
    Build([Base EXCEPT !.ents = <<Ascii(1, ChN), Coord(2, 5, 3, "lat")>>,
                       !.m = 2])

\* files carrying a HEIC extension, with the EXIF library's tolerant parse
HeicFiles ==
    {<<FtypBytes, Err("exif")>>, <<<<255>>, Err("exif")>>,
     <<<<255, 225, 0, 8>>, Ok(GoodFields)>>,
     <<Build(Base), Err("exif")>>, <<Build(Base), Ok(GoodFields)>>,
     <<LatOnlyJpeg, Err("exif")>>}

---------------------------------------------------------------------------
(* JPEG files with other marker segments before, or instead of, the        *)
(* APP1/EXIF segment                                                       *)

\* segments before the APP1 segment
MaxLead == 2

\* the APP1/EXIF segment of the well-formed file
App1 == SubSeq(FullFile(Base), 3, FullLen(Base))

Segment(marker, payload) ==
    <<255, marker>> \o U16(BE, 2 + Len(payload)) \o payload

\* Start-of-Scan, a segment of declared length 0, APP0, and comment, SOF2
\* and DQT segments, some with the bytes of an APP1/EXIF segment as payload
LeadSegments ==
    {Segment(218, <<>>), <<255, 224, 0, 0>>, PreSegment,
     Segment(254, <<1, 2>>), Segment(254, App1), Segment(194, App1),
     Segment(219, App1)}

MarkerFiles ==
    {<<255, 216>> \o Flat(segs) \o tail :
        segs \in SeqsUpTo(LeadSegments, MaxLead),
        tail \in {App1, <<255, 217>>}}

---------------------------------------------------------------------------
(* Directories of photos                                                   *)

\* entries per directory
MaxBatch == 3

\* worker threads of the pool
Workers == 2

Entry(name, e, d, a, h) ==
    [name |-> name, utf8 |-> TRUE, visible |-> TRUE, e |-> e, d |-> d,
     a |-> a, h |-> h]

GoodHeif ==
    [open |-> TRUE, handle |-> TRUE,
     blocks |-> <<ExifBlock(TiffStub, Ok(GoodFields))>>]

DirEntries ==
    {Entry("a.jpg", "jpg", Build(Base), Ok(GoodFields), NoHeif),
     Entry("b.jpg", "jpg", LatOnlyJpeg, Err("exif"), NoHeif),
     Entry("c.heic", "heic", FtypBytes, Err("exif"), GoodHeif),
     [Entry("d.heic", "heic", FtypBytes, Err("exif"), GoodHeif)
         EXCEPT !.utf8 = FALSE],
     Entry("e.png", "png", <<137, 80>>, Ok(GoodFields), NoHeif),
     [Entry("f.jpg", "jpg", Build(Base), Ok(GoodFields), NoHeif)
         EXCEPT !.visible = FALSE],
     Entry("g.avif", "avif", FtypBytes, Err("exif"), NoHeif)}

Directories == {S \in SUBSET DirEntries : Cardinality(S) <= MaxBatch}

NoBatch == [files |-> {}, attempted |-> {}, accs |-> <<>>]

---------------------------------------------------------------------------
(* Folders of the settings and the state of the database                   *)

\* folders per processing request
MaxFolders == 2

Folder(name, exists, files) ==
    [name |-> name, exists |-> exists, files |-> files]

\* a file of a folder with the outcome of its extraction
FileOf(name, e, outcome) ==
    [name |-> name, visible |-> TRUE, e |-> e, outcome |-> outcome]

PhotoOf(name, e) ==
    Ok([filename |-> name,
        lat |-> [f |-> "Fin", n |-> 1, d |-> 1],
        lng |-> [f |-> "Fin", n |-> 2, d |-> 1],
        is_heic |-> is_heif(e)])

\* two folders with photos, a folder that is not on the disk, a folder with
\* a HEIC file whose name is not valid UTF-8 (heic.rs line 10 panics on it)
RunFolders ==
    {Folder("A", TRUE,
            {FileOf("c.heic", "heic", PhotoOf("c.heic", "heic")),
             FileOf("b.jpg", "jpg", Err("GPS data not found")),
             FileOf("e.png", "png", Err("File is not a supported image"))}),
     Folder("B", TRUE, {FileOf("h.jpg", "jpg", PhotoOf("h.jpg", "jpg"))}),
     Folder("M", FALSE, {}),
     Folder("P", TRUE, {FileOf("d.heic", "heic", Panic)})}

FolderLists == SeqsUpTo(RunFolders, MaxFolders)

\* the rows an earlier run left in the table
OldRows == {row("old", PhotoOf("z.heic", "heic").v)}

InsertAnswers == {"all", "some", "fail"}

NoRun == [kind |-> "none", folders |-> <<>>, next |-> 1, stats |-> ZeroStats]

---------------------------------------------------------------------------
(* Configuration files                                                     *)

\* calls of load and of update_settings in one run
MaxCalls == 2

NoConfig == [exists |-> FALSE, writable |-> FALSE, content |-> <<>>,
             writes |-> 0]

KeyValue(key, value) == <<key, " ", "=", " ", value>>

ConfigContents ==
    {<<HeaderLine, KeyValue("start_browser", "true"), KeyValue("top", "12"),
       KeyValue("left", "52")>>,
     <<HeaderLine, KeyValue("top", "0")>>,
     <<KeyValue("left", "-7"), <<" ">>, KeyValue("top", "abc"),
       KeyValue("start_browser", "false"), <<"junk">>>>,
     <<<<"last_folder", "=", "\"", "/p", "\"">>, <<"top", "=", "+3">>,
       KeyValue("top", "0"), <<"left", "=", "3", " ">>>>,
     <<>>}

ConfigFiles ==
    {[NoConfig EXCEPT !.writable = w] : w \in BOOLEAN}
    \cup {[exists |-> TRUE, writable |-> w, content |-> c, writes |-> 0] :
             w \in BOOLEAN, c \in ConfigContents}

\* settings a client sends to update_settings
NewSettings ==
    {[DefaultSettings EXCEPT !.top = 0],
     [last_folder |-> Some(<<"/p">>), start_browser |-> FALSE, top |-> -7,
      left |-> 3]}

---------------------------------------------------------------------------
(* The extraction calls on one file                                        *)

\* the scanner called on the file (bin/test_custom_gps.rs)
RunMalformed ==
    /\ pc = "ready"
    /\ result' = extract_gps_from_malformed_exif(data)
    /\ pc' = "done"
    /\ steps' = Append(steps, "malformed")
    /\ UNCHANGED <<table, events, run, data, ext, lib, heif, prev, batch, config>>

RunJpegCustom ==
    /\ pc = "ready"
    /\ result' = extract_metadata_from_jpeg_custom(data, lib)
    /\ pc' = "done"
    /\ steps' = Append(steps, "jpeg_custom")
    /\ UNCHANGED <<table, events, run, data, ext, lib, heif, prev, batch, config>>

\* extract_gps_our of the test harness on a file that has no HEIF extension
\* (main.rs 141-143, 202-224)
RunOurJpeg ==
    /\ pc = "ready"
    /\ ~is_heif(ext)
    /\ result' = extract_gps_our_jpeg(lib)
    /\ pc' = "done"
    /\ steps' = Append(steps, "our_jpeg")
    /\ UNCHANGED <<table, events, run, data, ext, lib, heif, prev, batch, config>>

\* the two get_gps_coord calls every library-based path makes on a parsed
\* EXIF block (jpeg.rs 41-42, heic.rs 50-51, processing.rs 273-274)
ResolveCoords ==
    /\ pc = "ready"
    /\ IsOk(lib)
    /\ result' = [k |-> "Pair",
                  lat |-> get_gps_coord(lib.v, GPSLatitude, GPSLatitudeRef),
                  lng |-> get_gps_coord(lib.v, GPSLongitude, GPSLongitudeRef)]
    /\ pc' = "done"
    /\ steps' = Append(steps, "resolve")
    /\ UNCHANGED <<table, events, run, data, ext, lib, heif, prev, batch, config>>

\* the other-formats branch of process_file_to_metadata after the library
\* parsed the container, and the formatting of the timestamp
\* (processing.rs 273-287)
ResolveDatetime ==
    /\ pc = "ready"
    /\ IsOk(lib)
    /\ LET lat == get_gps_coord(lib.v, GPSLatitude, GPSLatitudeRef)
           lng == get_gps_coord(lib.v, GPSLongitude, GPSLongitudeRef)
           datetime == get_datetime_from_exif(lib.v)
       IN  result' =
               [k |-> "Meta",
                datetime |-> datetime,
                got |-> IF ~IsSome(lat) \/ ~IsSome(lng)
                        THEN Err("GPS data not found")
                        ELSE Ok([lat |-> lat.v, lng |-> lng.v,
                                 datetime_str |->
                                     IF IsSome(datetime)
                                     THEN format_datetime(datetime.v)
                                     ELSE <<Sep("Unknown Date")>>])]
    /\ pc' = "dated"
    /\ steps' = Append(steps, "datetime")
    /\ UNCHANGED <<table, events, run, data, ext, lib, heif, prev, batch, config>>

\* get_datetime_from_exif of src/exif_parser.rs on a parsed block, with the
\* default its caller gives an absent timestamp (jpeg.rs 43)
ResolveDatetimeString ==
    /\ pc = "ready"
    /\ IsOk(lib)
    /\ LET datetime == get_datetime_from_exif_string(lib.v)
       IN  result' = [k |-> "Shown",
                      datetime |-> datetime,
                      shown |-> IF IsSome(datetime) THEN datetime.v
                                ELSE <<Sep("Data neizvestna")>>]
    /\ pc' = "dated"
    /\ steps' = Append(steps, "datetime_string")
    /\ UNCHANGED <<table, events, run, data, ext, lib, heif, prev, batch, config>>

\* process_file_to_metadata, lines 250-252
RejectUnsupported ==
    /\ pc = "ready"
    /\ ext \notin SupportedFormats
    /\ result' = Err("File is not a supported image")
    /\ pc' = "done"
    /\ steps' = Append(steps, "unsupported")
    /\ UNCHANGED <<table, events, run, data, ext, lib, heif, prev, batch, config>>

\* process_file_to_metadata, lines 263-265
ProcessJpeg ==
    /\ pc = "ready"
    /\ ext \in SupportedFormats /\ ~is_heif(ext)
    /\ ext = "jpg" \/ ext = "jpeg"
    /\ result' = extract_metadata_from_jpeg(data, lib)
    /\ pc' = "done"
    /\ steps' = Append(steps, "jpeg")
    /\ UNCHANGED <<table, events, run, data, ext, lib, heif, prev, batch, config>>

\* extract_metadata_from_heic, lines 9-67: the HEIF step
HeicTry ==
    /\ pc = "ready"
    /\ ext \in SupportedFormats /\ is_heif(ext)
    /\ result' = heic_result(heif)
    /\ pc' = IF heic_after(heic_result(heif), data) = "return" THEN "done"
             ELSE "heic_failed"
    /\ steps' = Append(steps, "heif")
    /\ UNCHANGED <<table, events, run, data, ext, lib, heif, prev, batch, config>>

\* lines 73-81: the file is a JPEG: delegate; it is not: the HEIF failure
HeicFallback ==
    /\ pc = "heic_failed"
    /\ pc' = IF heic_after(result, data) = "delegate" THEN "delegated"
             ELSE "done"
    /\ steps' = Append(steps, "sniff")
    /\ UNCHANGED <<table, events, run, data, ext, lib, heif, result, prev, batch, config>>

\* line 77
HeicDelegate ==
    /\ pc = "delegated"
    /\ result' = extract_metadata_from_jpeg(data, lib)
    /\ pc' = "done"
    /\ steps' = Append(steps, "jpeg")
    /\ UNCHANGED <<table, events, run, data, ext, lib, heif, prev, batch, config>>

\* the same call made once more, on the same bytes and with the same answers
\* of the EXIF library and of the demuxer
CallAgain ==
    /\ pc = "done"
    /\ prev = None
    /\ steps[1] \in {"malformed", "jpeg_custom", "heif"}
    /\ prev' = Some(result)
    /\ result' = CASE steps[1] = "malformed" ->
                         extract_gps_from_malformed_exif(data)
                   [] steps[1] = "jpeg_custom" ->
                         extract_metadata_from_jpeg_custom(data, lib)
                   [] steps[1] = "heif" ->
                         extract_metadata_from_heic(heif, data, lib)
    /\ pc' = "again"
    /\ steps' = Append(steps, "again")
    /\ UNCHANGED <<table, events, run, data, ext, lib, heif, batch, config>>

\* lines 94-118: a live worker takes an entry nobody has taken yet
FoldEntry ==
    /\ pc = "batch"
    /\ \E f \in discovered(batch.files) \ batch.attempted :
       \E w \in 1..Workers :
          /\ batch.accs[w] # Panic
          /\ batch' = [batch EXCEPT !.attempted = @ \cup {f},
                                    !.accs[w] = fold_step(
                                       @, f, process_file_to_metadata(f))]
    /\ UNCHANGED <<table, events, run, data, ext, lib, heif, pc, result, steps, prev, config>>

\* lines 119-129: no entry is left, or no worker is; the pool joins
Reduce ==
    /\ pc = "batch"
    /\ \/ discovered(batch.files) = batch.attempted
       \/ \A w \in 1..Workers : batch.accs[w] = Panic
    /\ result' = reduce(batch.accs, 1)
    /\ pc' = IF reduce(batch.accs, 1) = Panic THEN "batch_panicked"
             ELSE "batch_reduced"
    /\ UNCHANGED <<table, events, run, data, ext, lib, heif, steps, prev, batch, config>>

\* process_photos_with_stats after the reduction: the batch insert and the
\* tuple returned (processing.rs 129-213)
FinishBatch ==
    /\ pc = "batch_reduced"
    /\ \E answer \in InsertAnswers :
          LET out == insert_and_count(table, "dir", result, answer)
          IN  /\ result' = out.r
              /\ table' = out.table
    /\ pc' = "batch_returned"
    /\ UNCHANGED <<events, run, data, ext, lib, heif, steps, prev, batch,
                   config>>

\* a direct call of process_photos_with_stats (processing.rs 14-214)
Called(silent_mode, clear_database, out) ==
    /\ result' = [silent_mode |-> silent_mode,
                  clear_database |-> clear_database, r |-> out.r]
    /\ table' = out.table

CallProcessPhotos ==
    /\ pc = "call"
    /\ \E silent_mode \in BOOLEAN, clear_database \in BOOLEAN,
          clears \in BOOLEAN, answer \in InsertAnswers :
          Called(silent_mode, clear_database,
                 process_photos_with_stats(table, run.folders[1], silent_mode,
                                           clear_database, clears, answer))
    /\ pc' = "called"
    /\ UNCHANGED <<events, run, data, ext, lib, heif, steps, prev, batch,
                   config>>

\* the request handler initiate_processing (handlers.rs 436-548): without
\* folders it answers "error" and an error event is sent; otherwise it
\* spawns the task and answers "started"
InitiateProcessing ==
    /\ pc = "serving"
    /\ run' = [run EXCEPT !.kind = "initiate"]
    /\ IF run.folders = <<>>
       THEN /\ events' = Append(events,
                                processing_error("No folders configured", ""))
            /\ result' = [status |-> "error"]
            /\ pc' = "rejected"
       ELSE /\ events' = events
            /\ result' = [status |-> "started"]
            /\ pc' = "task"
    /\ UNCHANGED <<table, data, ext, lib, heif, steps, prev, batch, config>>

\* the request handler reprocess_photos (handlers.rs 335-433): without
\* folders it answers "error"; otherwise it clears the table once, spawns
\* the task and answers "started"
ReprocessPhotos ==
    /\ pc = "serving"
    /\ run' = [run EXCEPT !.kind = "reprocess"]
    /\ \E clears \in BOOLEAN :
          IF run.folders = <<>>
          THEN /\ result' = [status |-> "error"]
               /\ pc' = "rejected"
               /\ table' = table
          ELSE IF ~clears
          THEN /\ result' = [status |-> "INTERNAL_SERVER_ERROR"]
               /\ pc' = "rejected"
               /\ table' = table
          ELSE /\ result' = [status |-> "started"]
               /\ pc' = "task"
               /\ table' = {}
    /\ UNCHANGED <<events, data, ext, lib, heif, steps, prev, batch, config>>

\* the match on what the call for the folder dir returned, in either task
\* (handlers.rs 381-403, 485-510): the statistics are added, or an error
\* event is sent; a panic of the call ends the task
Matched(dir, out) ==
    IF out.r = Panic
    THEN /\ pc' = "task_panicked"
         /\ table' = out.table
         /\ UNCHANGED <<events, run>>
    ELSE IF IsOk(out.r)
    THEN /\ run' = [run EXCEPT !.next = @ + 1,
                               !.stats = add_stats(@, out.r.v)]
         /\ table' = out.table
         /\ UNCHANGED <<events, pc>>
    ELSE /\ events' = Append(events,
                             processing_error("Processing failed", dir.name))
         /\ run' = [run EXCEPT !.next = @ + 1]
         /\ table' = out.table
         /\ pc' = pc

\* one iteration of the loop of the task of initiate_processing
\* (handlers.rs 469-511)
InitiateFolder ==
    /\ pc = "task"
    /\ run.kind = "initiate"
    /\ run.next <= Len(run.folders)
    /\ IF ~run.folders[run.next].exists
       THEN /\ events' = Append(events,
                                processing_error("Folder not found",
                                                 run.folders[run.next].name))
            /\ run' = [run EXCEPT !.next = @ + 1]
            /\ UNCHANGED <<table, pc>>
       ELSE \E clears \in BOOLEAN, answer \in InsertAnswers :
               Matched(run.folders[run.next],
                       process_photos_from_directory(
                           table, run.folders[run.next], clears, answer))
    /\ UNCHANGED <<result, data, ext, lib, heif, steps, prev, batch, config>>

\* one iteration of the loop of the task of reprocess_photos
\* (handlers.rs 371-404)
ReprocessFolder ==
    /\ pc = "task"
    /\ run.kind = "reprocess"
    /\ run.next <= Len(run.folders)
    /\ IF ~run.folders[run.next].exists
       THEN /\ run' = [run EXCEPT !.next = @ + 1]
            /\ UNCHANGED <<table, pc, events>>
       ELSE \E clears \in BOOLEAN, answer \in InsertAnswers :
               Matched(run.folders[run.next],
                       process_photos_with_stats(
                           table, run.folders[run.next], FALSE, FALSE, clears,
                           answer))
    /\ UNCHANGED <<result, data, ext, lib, heif, steps, prev, batch, config>>

\* the end of either task: the completion event (handlers.rs 406-425,
\* 514-538)
TaskComplete ==
    /\ pc = "task"
    /\ run.next > Len(run.folders)
    /\ events' = Append(events,
                        processing_complete(run.stats, Len(run.folders)))
    /\ pc' = "task_done"
    /\ UNCHANGED <<table, run, result, data, ext, lib, heif, steps, prev,
                   batch, config>>

\* Settings::load; the log tells which branch it took
LoadSettings ==
    /\ pc = "settings"
    /\ Len(steps) < MaxCalls
    /\ result' = load(config).r
    /\ config' = load(config).config
    /\ steps' = Append(steps, IF config.exists THEN "load" ELSE "load_create")
    /\ UNCHANGED <<table, events, run, data, ext, lib, heif, pc, prev, batch>>

\* update_settings of the server (server/handlers.rs 313-325): the new
\* settings are saved
UpdateSettings ==
    /\ pc = "settings"
    /\ Len(steps) < MaxCalls
    /\ \E new \in NewSettings :
          /\ result' = save(new, config).r
          /\ config' = save(new, config).config
    /\ steps' = Append(steps, "save")
    /\ UNCHANGED <<table, events, run, data, ext, lib, heif, pc, prev, batch>>

\* one file with the collaborators' answers for it
Start(d, e, a, h) ==
    /\ data = d
    /\ ext = e
    /\ lib = a
    /\ heif = h
    /\ pc = "ready"
    /\ result = None
    /\ steps = <<>>
    /\ prev = None
    /\ batch = NoBatch
    /\ config = NoConfig
    /\ table = {}
    /\ events = <<>>
    /\ run = NoRun

\* a directory handed to process_photos_with_stats
StartBatch(S) ==
    /\ data = <<>>
    /\ ext = ""
    /\ lib = Err("exif")
    /\ heif = NoHeif
    /\ pc = "batch"
    /\ result = None
    /\ steps = <<>>
    /\ prev = None
    /\ batch = [files |-> S, attempted |-> {},
                accs |-> [w \in 1..Workers |-> Acc0]]
    /\ config = NoConfig
    /\ table = {}
    /\ events = <<>>
    /\ run = NoRun

\* the application starts with the configuration file c on disk
StartSettings(c) ==
    /\ data = <<>>
    /\ ext = ""
    /\ lib = Err("exif")
    /\ heif = NoHeif
    /\ pc = "settings"
    /\ result = None
    /\ steps = <<>>
    /\ prev = None
    /\ batch = NoBatch
    /\ config = c
    /\ table = {}
    /\ events = <<>>
    /\ run = NoRun

\* the server with the configured folders and a table that an earlier run
\* filled
StartServer(folders) ==
    /\ data = <<>>
    /\ ext = ""
    /\ lib = Err("exif")
    /\ heif = NoHeif
    /\ pc = "serving"
    /\ result = None
    /\ steps = <<>>
    /\ prev = None
    /\ batch = NoBatch
    /\ config = NoConfig
    /\ table = OldRows
    /\ events = <<>>
    /\ run = [NoRun EXCEPT !.folders = folders]

\* a caller about to hand the directory dir to process_photos_with_stats
StartCall(dir) ==
    /\ data = <<>>
    /\ ext = ""
    /\ lib = Err("exif")
    /\ heif = NoHeif
    /\ pc = "call"
    /\ result = None
    /\ steps = <<>>
    /\ prev = None
    /\ batch = NoBatch
    /\ config = NoConfig
    /\ table = OldRows
    /\ events = <<>>
    /\ run = [NoRun EXCEPT !.kind = "call", !.folders = <<dir>>]

Init ==
    \/ \E p \in Params : Start(Build(p), "jpg", Err("exif"), NoHeif)
    \/ \E p \in HeaderParams \cup PrefixParams :
          Start(Build(p), "jpg", Ok(GoodFields), NoHeif)
    \/ \E a \in LibAnswers : Start(Build(Base), "jpg", a, NoHeif)
    \/ \E e \in {"jpeg", "png", "tiff"} :
          Start(Build(Base), e, Ok(GoodFields), NoHeif)
    \/ \E x \in HeicFiles, h \in HeifAnswers : Start(x[1], "heic", x[2], h)
    \/ \E x \in HeicFiles, e \in {"heif", "avif"} :
          Start(x[1], e, x[2], NoHeif)
    \/ \E p \in LongRefParams : Start(Build(p), "jpg", Err("exif"), NoHeif)
    \/ \E d \in MarkerFiles, a \in {Err("exif"), Ok(GoodFields)} :
          Start(d, "jpg", a, NoHeif)
    \/ \E fs \in DateFieldLists : Start(Build(Base), "tiff", Ok(fs), NoHeif)
    \/ \E S \in Directories : StartBatch(S)
    \/ \E c \in ConfigFiles : StartSettings(c)
    \/ \E folders \in FolderLists : StartServer(folders)
    \/ \E dir \in RunFolders : StartCall(dir)

Next ==
    \/ RunMalformed
    \/ RunJpegCustom
    \/ RunOurJpeg
    \/ ResolveCoords
    \/ ResolveDatetime
    \/ ResolveDatetimeString
    \/ RejectUnsupported
    \/ ProcessJpeg
    \/ HeicTry
    \/ HeicFallback
    \/ HeicDelegate
    \/ CallAgain
    \/ FoldEntry
    \/ Reduce
    \/ FinishBatch
    \/ CallProcessPhotos
    \/ InitiateProcessing
    \/ ReprocessPhotos
    \/ InitiateFolder
    \/ ReprocessFolder
    \/ TaskComplete
    \/ LoadSettings
    \/ UpdateSettings

Spec == Init /\ [][Next]_vars

\* the runtime runs a spawned task until it has ended
FairSpec ==
    /\ Spec
    /\ WF_vars(InitiateFolder)
    /\ WF_vars(ReprocessFolder)
    /\ WF_vars(TaskComplete)

---------------------------------------------------------------------------
(* Properties                                                              *)

\* the call named by the step log has returned
Ran(path) == pc = "done" /\ steps = path

\* comparisons of the fraction x with an integer, without multiplying
FloorOf(x) == x.n \div x.d

LeqInt(x, k) == FloorOf(x) < k \/ (FloorOf(x) = k /\ x.n % x.d = 0)

GeqInt(x, k) == FloorOf(x) >= k

InRange(x, k) == x.f = "Fin" /\ GeqInt(x, -k) /\ LeqInt(x, k)

IsNegative(x) == x.n < 0

\* a call that returned a coordinate pair
HasCoords(r) == r.k \in {"Some", "Ok"}

\* what the scanner read from the file: the GPS directory position and the
\* latitude, longitude and references held when the entry loop ends
GpsDirOf(d) ==
    LET h == tiff_header(d)
        gps == IF IsSome(h)
               THEN find_gps_ifd_offset(d, h.v.tiff_start, h.v.ifd0_offset,
                                        h.v.byte_order)
               ELSE None
        gps_pos == IF IsSome(gps) THEN h.v.tiff_start + gps.v ELSE 0
        found == IsSome(gps) /\ gps_pos + 2 <= Len(d)
    IN  [found |-> found,
         pos |-> gps_pos,
         declared |-> IF found THEN read_u16(d, gps_pos, h.v.byte_order) ELSE 0,
         acc |-> IF found
                 THEN parse_gps_loop(d, h.v.tiff_start, gps_pos + 2,
                                     read_u16(d, gps_pos, h.v.byte_order),
                                     h.v.byte_order, GpsAcc0)
                 ELSE GpsAcc0]

\* C1: the JPEG container scanner never indexes or slices outside the buffer:
\* on every buffer it ends with a coordinate result or with 'not found'.
C1_JpegScannerNeverPanics ==
    Ran(<<"jpeg_custom">>) => result.k \in {"Ok", "Err"}

\* a read the scanner's untrusted fields ask for lies past the end of the
\* buffer: the TIFF header, a directory's entry count, a declared entry of the
\* GPS directory
ExceedingRead(d) ==
    LET seg == find_exif_segment(d)
        h == tiff_header(d)
        g == GpsDirOf(d)
    IN  /\ IsSome(seg)
        /\ \/ seg.v + 10 + 8 > Len(d)
           \/ /\ IsSome(h)
              /\ h.v.tiff_start + h.v.ifd0_offset + 2 > Len(d)
           \/ /\ IsSome(h)
              /\ IsSome(find_gps_ifd_offset(d, h.v.tiff_start, h.v.ifd0_offset,
                                            h.v.byte_order))
              /\ ~g.found
           \/ /\ g.found
              /\ g.pos + 2 + 12 * g.declared > Len(d)

\* C2: every read of the malformed scanner is inside the buffer, and a read
\* that would exceed the buffer makes the scanner return None.
C2_ScannerReadsInBoundsOrNone ==
    Ran(<<"malformed">>) =>
        /\ result # Panic
        /\ ExceedingRead(data) => result = None

\* C7: a latitude or longitude whose reference tag is absent from the
\* directory is treated as absent and no result is emitted, in the malformed
\* scanner and in the resolver.
C7_MissingReferenceIsAbsent ==
    /\ Ran(<<"malformed">>) =>
          LET acc == GpsDirOf(data).acc
          IN  (acc.lat_ref = None \/ acc.lon_ref = None) => result = None
    /\ Ran(<<"resolve">>) =>
          /\ (\A i \in 1..Len(lib.v) : lib.v[i].tag # GPSLatitudeRef)
                => result.lat = None
          /\ (\A i \in 1..Len(lib.v) : lib.v[i].tag # GPSLongitudeRef)
                => result.lng = None

\* C8: every coordinate returned by any extraction path has latitude in
\* [-90, 90] and longitude in [-180, 180].
C8_CoordinatesInRange ==
    /\ (pc = "done" /\ HasCoords(result)) =>
          InRange(result.v.lat, 90) /\ InRange(result.v.lon, 180)
    /\ Ran(<<"resolve">>) =>
          /\ IsSome(result.lat) => InRange(result.lat.v, 90)
          /\ IsSome(result.lng) => InRange(result.lng.v, 180)

\* C9: no path returns a coordinate computed from a division by zero
\* (infinity or NaN): a zero denominator makes the coordinate absent.
C9_NoDivisionByZero ==
    /\ (pc = "done" /\ HasCoords(result)) =>
          result.v.lat.f = "Fin" /\ result.v.lon.f = "Fin"
    /\ Ran(<<"resolve">>) =>
          /\ IsSome(result.lat) => result.lat.v.f = "Fin"
          /\ IsSome(result.lng) => result.lng.v.f = "Fin"

\* the first character of a reference value is 'S' or 'W'
SouthOrWest(c) == c = Some(ChS) \/ c = Some(ChW)

\* C10: a resolved latitude or longitude is negated if and only if the first
\* character of its reference field is 'S' or 'W', in the malformed scanner
\* as in the resolver.
C10_NegatedIffSouthOrWest ==
    /\ (Ran(<<"malformed">>) /\ IsSome(result)) =>
          LET acc == GpsDirOf(data).acc
          IN  /\ IsNegative(result.v.lat) <=> SouthOrWest(acc.lat_ref)
              /\ IsNegative(result.v.lon) <=> SouthOrWest(acc.lon_ref)
    /\ Ran(<<"resolve">>) =>
          \A i, j \in 1..Len(lib.v) :
             (/\ lib.v[i].tag = GPSLatitude /\ lib.v[j].tag = GPSLatitudeRef
              /\ lib.v[i].ifd_num = lib.v[j].ifd_num
              /\ IsSome(result.lat) /\ result.lat.v.f = "Fin")
             => (IsNegative(result.lat.v)
                    <=> SouthOrWest(Some(lib.v[j].str[1])))

\* IFD0 as the file declares it: position, declared entry count, position
\* of the next-directory link that follows the declared entries
Ifd0Of(d) ==
    LET h == tiff_header(d)
        pos == IF IsSome(h) THEN h.v.tiff_start + h.v.ifd0_offset ELSE 0
        ok == IsSome(h) /\ pos + 2 <= Len(d)
        n == IF ok THEN read_u16(d, pos, h.v.byte_order) ELSE 0
    IN  [ok |-> ok, pos |-> pos, n |-> n, link_pos |-> pos + 2 + 12 * n,
         bo |-> IF ok THEN h.v.byte_order ELSE LE,
         tiff_start |-> IF ok THEN h.v.tiff_start ELSE 0]

\* IFD0's own entries hold the GPS-IFD pointer and its link field is in the file
PointerInIfd0(d) ==
    LET z == Ifd0Of(d)
    IN  /\ z.ok
        /\ z.link_pos + 4 <= Len(d)
        /\ \E k \in 0..(z.n - 1) : read_u16(d, z.pos + 2 + 12 * k, z.bo) = 34853

\* the file with the 4 bytes of IFD0's link field replaced by v
WithLink(d, v) ==
    LET z == Ifd0Of(d)
    IN  [i \in 1..Len(d) |->
            IF i > z.link_pos /\ i <= z.link_pos + 4
            THEN U32(z.bo, v)[i - z.link_pos] ELSE d[i]]

Overlap(a, b, c, e) == a < e /\ c < b

\* the GPS-IFD pointer or a coordinate value offset leads into the link field
LinkAliased(d) ==
    LET z == Ifd0Of(d)
        g == GpsDirOf(d)
        fit == IF g.found THEN (Len(d) - g.pos - 2) \div 12 ELSE 0
        last == (IF g.declared < fit THEN g.declared ELSE fit) - 1
        entry(k) == g.pos + 2 + 12 * k
    IN  /\ g.found
        /\ \/ Overlap(g.pos, g.pos + 2 + 12 * g.declared,
                      z.link_pos, z.link_pos + 4)
           \/ \E k \in 0..last :
                 /\ read_u16(d, entry(k), z.bo) \in {GPSLatitude, GPSLongitude}
                 /\ Overlap(z.tiff_start + read_u32(d, entry(k) + 8, z.bo),
                            z.tiff_start + read_u32(d, entry(k) + 8, z.bo) + 24,
                            z.link_pos, z.link_pos + 4)

\* the link values each file is rewritten with: no next directory, and an
\* offset past the end of every file
LinkProbes == {0, 258}

\* C3 as stated: with the GPS-IFD pointer in IFD0's own entries the scanner
\* finds the GPS directory and two buffers that differ only in the 4 bytes of
\* IFD0's next-directory link give the same result.
C3_LinkFieldNeverMatters ==
    (Ran(<<"malformed">>) /\ PointerInIfd0(data)) =>
        /\ GpsDirOf(data).found \/ result = None
        /\ \A v \in LinkProbes :
              extract_gps_from_malformed_exif(WithLink(data, v)) = result

\* C3 amended: the same, provided neither the GPS-IFD pointer nor a
\* coordinate value offset leads into the link field itself.
C3_LinkFieldIgnoredUnlessAliased ==
    (Ran(<<"malformed">>) /\ PointerInIfd0(data) /\ ~LinkAliased(data)) =>
        /\ GpsDirOf(data).found \/ result = None
        /\ \A v \in LinkProbes :
              extract_gps_from_malformed_exif(WithLink(data, v)) = result

\* a coordinate is returned although the link field holds an offset past the
\* buffer
C3_Witness ==
    /\ Ran(<<"malformed">>) /\ PointerInIfd0(data) /\ ~LinkAliased(data)
    /\ read_u32(data, Ifd0Of(data).link_pos, Ifd0Of(data).bo) = FarOff
    /\ \A v \in LinkProbes : Ifd0Of(data).tiff_start + v + 2 > Len(data)
                             \/ v = 0
    /\ IsSome(result)

\* the first two bytes of the raw file are 0xFF 0xD8
StartsWithSoi(d) == Len(d) >= 2 /\ d[1] = 255 /\ d[2] = 216

Usable(f) == f.vk \in {"Rational", "SRational"} /\ Len(f.rats) = 3

\* directory ifd holds a usable coordinate field and its reference field
PairIn(fields, coord_tag, ref_tag, ifd) ==
    \E i, j \in 1..Len(fields) :
        /\ fields[i].tag = coord_tag /\ fields[i].ifd_num = ifd
        /\ Usable(fields[i])
        /\ fields[j].tag = ref_tag /\ fields[j].ifd_num = ifd

DirsOf(fields) == {fields[i].ifd_num : i \in 1..Len(fields)}

FoundByFallback(fields, coord_tag, ref_tag, res) ==
    /\ (/\ ~PairIn(fields, coord_tag, ref_tag, PRIMARY)
        /\ \E ifd \in DirsOf(fields) : PairIn(fields, coord_tag, ref_tag, ifd))
          => /\ IsSome(res)
             /\ \E i \in 1..Len(fields) :
                   /\ fields[i].tag = coord_tag /\ Usable(fields[i])
                   /\ fields[i].ifd_num # PRIMARY
                   /\ PairIn(fields, coord_tag, ref_tag, fields[i].ifd_num)
                   /\ LET m == DmsToDecimal(fields[i].rats[1],
                                            fields[i].rats[2],
                                            fields[i].rats[3])
                      IN  res.v = m \/ res.v = Neg(m)
    /\ (\A ifd \in DirsOf(fields) : ~PairIn(fields, coord_tag, ref_tag, ifd))
          => res = None

\* C5: when the primary directory has no usable coordinate/reference pair, a
\* 3-component Rational or SRational coordinate field of a non-primary
\* directory is found if a reference field exists in the same directory; a
\* reference field of another directory is never paired with it.
C5_AllDirectoriesFallback ==
    Ran(<<"resolve">>) =>
        /\ FoundByFallback(lib.v, GPSLatitude, GPSLatitudeRef, result.lat)
        /\ FoundByFallback(lib.v, GPSLongitude, GPSLongitudeRef, result.lng)

\* an SRational latitude of directory 1 is found through its reference there
C5_Witness ==
    /\ Ran(<<"resolve">>)
    /\ ~PairIn(lib.v, GPSLatitude, GPSLatitudeRef, PRIMARY)
    /\ \E i \in 1..Len(lib.v) :
          /\ lib.v[i].tag = GPSLatitude /\ lib.v[i].vk = "SRational"
          /\ lib.v[i].ifd_num = 1
    /\ PairIn(lib.v, GPSLatitude, GPSLatitudeRef, 1)
    /\ IsSome(result.lat)

\* both coordinates resolve in the GPS directory the scanner read
BothScanner(d) ==
    GpsDirOf(d).acc.lat # None /\ GpsDirOf(d).acc.lon # None

\* both coordinates resolve in the fields the library parsed
BothLib(a) ==
    /\ IsOk(a)
    /\ IsSome(get_gps_coord(a.v, GPSLatitude, GPSLatitudeRef))
    /\ IsSome(get_gps_coord(a.v, GPSLongitude, GPSLongitudeRef))

\* exactly one of the two resolves
OneLib(a) ==
    /\ IsOk(a)
    /\ IsSome(get_gps_coord(a.v, GPSLatitude, GPSLatitudeRef))
          # IsSome(get_gps_coord(a.v, GPSLongitude, GPSLongitudeRef))

\* C6: on every extraction path a coordinate is returned only when both
\* latitude and longitude resolved; with only one of them the path returns no
\* coordinate.
C6_BothOrNothing ==
    /\ Ran(<<"malformed">>) => (IsSome(result) => BothScanner(data))
    /\ Ran(<<"jpeg_custom">>) => (IsOk(result) => BothLib(lib))
    /\ Ran(<<"heif">>) =>
          (IsOk(result) => \E i \in 1..Len(heif.blocks) :
                              /\ heif.blocks[i].type = "Exif"
                              /\ BothLib(heif.blocks[i].answer))
    /\ IsOk(generic_metadata(lib)) => BothLib(lib)

\* the library resolved one coordinate only and the JPEG scanner returned none
C6_Witness ==
    /\ Ran(<<"jpeg_custom">>)
    /\ OneLib(lib)
    /\ result = Err("NotFound")

\* |x|
Magnitude(x) == IF x.n < 0 THEN Neg(x) ELSE x

\* a/b = c/e for a, c >= 0 and b, e > 0, by continued fractions
RECURSIVE SameFraction(_, _, _, _)
SameFraction(a, b, c, e) ==
    IF a \div b # c \div e THEN FALSE
    ELSE IF a % b = 0 \/ c % e = 0 THEN a % b = c % e
    ELSE SameFraction(b, a % b, e, c % e)

\* x = dn/dd + (mn/md)/60 + (sn/sd)/3600, all denominators non-zero
IsDmsValue(x, dn, dd, mn, md, sn, sd) ==
    LET N == 3600 * dn * md * sd + 60 * mn * dd * sd + sn * dd * md
        D == 3600 * dd * md * sd
    IN  /\ x.f = "Fin"
        /\ dd # 0 /\ md # 0 /\ sd # 0
        /\ SameFraction(x.n, x.d, N, D)

\* the last entry of the GPS directory that fits, has the tag and is a
\* 3-component Rational: position of its 24 value bytes, or -1
ValuePosOf(d, tag) ==
    LET z == Ifd0Of(d)
        g == GpsDirOf(d)
        fit == IF g.found THEN (Len(d) - g.pos - 2) \div 12 ELSE 0
        n == IF g.declared < fit THEN g.declared ELSE fit
        entry(k) == g.pos + 2 + 12 * k
        S == {k \in 0..(n - 1) :
                 /\ read_u16(d, entry(k), z.bo) = tag
                 /\ read_u16(d, entry(k) + 2, z.bo) = 5
                 /\ read_u32(d, entry(k) + 4, z.bo) = 3}
    IN  IF S = {} THEN -1
        ELSE LET k == CHOOSE k \in S : \A j \in S : j <= k
             IN  z.tiff_start + read_u32(d, entry(k) + 8, z.bo)

\* the value the scanner returned is the one of the 24 bytes at pos, read as
\* deg num, deg den, min num, min den, sec num, sec den
ReadInOrder(d, pos, x) ==
    LET bo == Ifd0Of(d).bo
    IN  /\ pos >= 0 /\ pos + 24 <= Len(d)
        /\ IsDmsValue(Magnitude(x),
                      read_u32(d, pos, bo), read_u32(d, pos + 4, bo),
                      read_u32(d, pos + 8, bo), read_u32(d, pos + 12, bo),
                      read_u32(d, pos + 16, bo), read_u32(d, pos + 20, bo))

\* the value the resolver returned is the one of the field's 3 rationals
FieldValue(fields, tag, x) ==
    \E i \in 1..Len(fields) :
        /\ fields[i].tag = tag /\ Len(fields[i].rats) = 3
        /\ LET r == fields[i].rats
           IN  (r[1].d # 0 /\ r[2].d # 0 /\ r[3].d # 0) =>
                  IsDmsValue(Magnitude(x), r[1].n, r[1].d, r[2].n, r[2].d,
                             r[3].n, r[3].d)

\* C11: the magnitude of a coordinate is d_num/d_den + (m_num/m_den)/60 +
\* (s_num/s_den)/3600; the scanner reads the three rationals in the order
\* degrees, minutes, seconds, numerator before denominator, from the 24
\* consecutive bytes at the value offset, and the resolver takes them from the
\* field in the same order.
C11_DegreesMinutesSeconds ==
    /\ (Ran(<<"malformed">>) /\ IsSome(result)) =>
          /\ ReadInOrder(data, ValuePosOf(data, GPSLatitude), result.v.lat)
          /\ ReadInOrder(data, ValuePosOf(data, GPSLongitude), result.v.lon)
    /\ Ran(<<"resolve">>) =>
          /\ IsSome(result.lat) => FieldValue(lib.v, GPSLatitude, result.lat.v)
          /\ IsSome(result.lng) => FieldValue(lib.v, GPSLongitude, result.lng.v)

\* the scanner returned 48 deg 52.5' read from minutes 105/2
C11_Witness ==
    /\ Ran(<<"malformed">>) /\ IsSome(result)
    /\ LET pos == ValuePosOf(data, GPSLatitude)
           bo == Ifd0Of(data).bo
       IN  /\ pos >= 0 /\ pos + 24 <= Len(data)
           /\ read_u32(data, pos + 8, bo) = 105
           /\ read_u32(data, pos + 12, bo) = 2
    /\ result.v.lat.n * 8 = 391 * result.v.lat.d

\* the GPS directory holds, among the entries that fit, one with the tag,
\* format Rational (5) or SRational (10) and count 3 whose 24 value bytes are
\* in the buffer and have non-zero denominators
HasCoordEntry(d, tag) ==
    LET z == Ifd0Of(d)
        g == GpsDirOf(d)
        fit == IF g.found THEN (Len(d) - g.pos - 2) \div 12 ELSE 0
        n == IF g.declared < fit THEN g.declared ELSE fit
        entry(k) == g.pos + 2 + 12 * k
        value(k) == z.tiff_start + read_u32(d, entry(k) + 8, z.bo)
    IN  \E k \in 0..(n - 1) :
           /\ read_u16(d, entry(k), z.bo) = tag
           /\ read_u16(d, entry(k) + 2, z.bo) \in {5, 10}
           /\ read_u32(d, entry(k) + 4, z.bo) = 3
           /\ value(k) + 24 <= Len(d)
           /\ \A j \in {4, 12, 20} : read_u32(d, value(k) + j, z.bo) # 0

\* C12: a latitude/longitude field with count 3 is accepted whether its
\* format is Rational (5) or SRational (10), on every path that resolves
\* coordinates, the malformed scanner's GPS-directory parse included.
C12_SignedRationalAccepted ==
    /\ (/\ Ran(<<"malformed">>)
        /\ HasCoordEntry(data, GPSLatitude)
        /\ HasCoordEntry(data, GPSLongitude)) => IsSome(result)
    /\ Ran(<<"resolve">>) =>
          \A i \in 1..Len(lib.v) :
              (/\ lib.v[i].tag = GPSLatitude /\ Usable(lib.v[i])
               /\ PairIn(lib.v, GPSLatitude, GPSLatitudeRef, lib.v[i].ifd_num))
                 => IsSome(result.lat)

\* the entries IFD0 declares run past the end of the buffer
Ifd0Truncated(d) ==
    Ifd0Of(d).ok /\ Ifd0Of(d).pos + 2 + 12 * Ifd0Of(d).n > Len(d)

\* the entries the GPS directory declares run past the end of the buffer
GpsDirTruncated(d) ==
    GpsDirOf(d).found
    /\ GpsDirOf(d).pos + 2 + 12 * GpsDirOf(d).declared > Len(d)

\* C13: when a directory's declared entry count makes the entry reads run
\* past the end of the buffer, the scanner returns no coordinate; this holds
\* for IFD0 and for the GPS directory.
C13_TruncatedDirectoryFails ==
    (Ran(<<"malformed">>) /\ (Ifd0Truncated(data) \/ GpsDirTruncated(data)))
        => result = None

\* the file has an APP1 "Exif\0\0" segment whose 4 header bytes are in the
\* buffer, and they are not "II" or "MM" followed by the magic 42
UnrecognizedHeader(d) ==
    LET e == find_exif_segment(d)
        t == IF IsSome(e) THEN e.v + 10 ELSE 0
    IN  /\ IsSome(e)
        /\ t + 8 <= Len(d)
        /\ Slice(d, t, t + 4) \notin {<<73, 73, 42, 0>>, <<77, 77, 0, 42>>}

\* C14: when the two bytes at the TIFF start are neither "II" nor "MM", or
\* the 16-bit magic after them is not 42, the strategy reports failure (no
\* coordinate) and does not crash.
C14_UnrecognizedHeaderFails ==
    /\ (Ran(<<"malformed">>) /\ UnrecognizedHeader(data)) => result = None
    /\ (Ran(<<"jpeg_custom">>) /\ UnrecognizedHeader(data)) => result.k = "Err"

\* the HEIF step of extract_metadata_from_heic has run on the demuxer's
\* answers and nothing else has
HeifStepDone == steps = <<"heif">>

\* the block is an Exif block that is fetched, parsed and has both coordinates
Yields(b) ==
    /\ b.type = "Exif" /\ b.fetch
    /\ Len(b.bytes) > tiff_header_start(b.bytes)
    /\ IsOk(read_raw(Slice(b.bytes, tiff_header_start(b.bytes), Len(b.bytes)),
                     b.answer))
    /\ BothLib(b.answer)

\* C19: metadata blocks are visited in enumeration order, only "Exif" blocks
\* are parsed, and the result is that of the first block that yields both
\* coordinates; an Exif block that cannot be fetched, cannot be parsed or has
\* no GPS pair does not stop the later blocks from being tried.
C19_FirstYieldingBlockWins ==
    (HeifStepDone /\ heif.open /\ heif.handle) =>
        LET S == {i \in 1..Len(heif.blocks) : Yields(heif.blocks[i])}
        IN  IF S = {} THEN result.k = "Err"
            ELSE LET i == CHOOSE i \in S : \A j \in S : i <= j
                     a == heif.blocks[i].answer.v
                 IN  result =
                        Ok([lat |-> get_gps_coord(a, GPSLatitude,
                                                  GPSLatitudeRef).v,
                            lon |-> get_gps_coord(a, GPSLongitude,
                                                  GPSLongitudeRef).v])

\* "II" or "MM" stands at offset c of the block
MarkerAt(bytes, c) ==
    Len(bytes) >= c + 2 /\ Slice(bytes, c, c + 2) \in {<<73, 73>>, <<77, 77>>}

\* the first accepted candidate among 0, 6, 10; -1 when none is accepted
ValidatedStart(bytes) ==
    IF MarkerAt(bytes, 0) THEN 0
    ELSE IF starts_with(bytes, ExifSig) /\ MarkerAt(bytes, 6) THEN 6
    ELSE IF Len(bytes) > 4 /\ Slice(bytes, 4, Len(bytes)) # <<>>
            /\ starts_with(Slice(bytes, 4, Len(bytes)), ExifSig)
            /\ MarkerAt(bytes, 10) THEN 10
    ELSE -1

\* C20: for an Exif block the TIFF start is the first of the candidates 0, 6
\* ("Exif\0\0" first), 10 (a 4-byte length first) at which a TIFF byte-order
\* marker stands; a block without such a candidate is not parsed, and no
\* block is sliced beyond its length.
C20_PrefixValidatedByMarker ==
    (HeifStepDone /\ heif.open /\ heif.handle) =>
        \A i \in 1..Len(heif.blocks) :
            LET b == heif.blocks[i]
                parsed == Len(b.bytes) > tiff_header_start(b.bytes)
            IN  (b.type = "Exif" /\ b.fetch) =>
                   /\ tiff_header_start(b.bytes) <= Len(b.bytes)
                   /\ parsed => tiff_header_start(b.bytes)
                                   = ValidatedStart(b.bytes)
                   /\ ~parsed => ValidatedStart(b.bytes) = -1

\* C18: for a JPEG file the strategies are tried in the order primary
\* directory, all directories, malformed scanner on the raw bytes; the first
\* success is returned and 'not found' is produced only after the malformed
\* scanner has also been tried and failed.
C18_NotFoundOnlyAfterScanner ==
    Ran(<<"our_jpeg">>) =>
        /\ (IsOk(lib) /\ IsSome(parse_exif_gps(lib.v)))
              => result = parse_exif_gps(lib.v)
        /\ result = None => ~IsSome(extract_gps_from_malformed_exif(data))

PhotosOf(S) ==
    {process_file_to_metadata(f).v :
        f \in {g \in S : IsOk(process_file_to_metadata(g))}}

BatchEnded == pc \in {"batch_reduced", "batch_panicked"}

\* C16: when process_photos_with_stats is through with a directory, every
\* discovered file has been attempted exactly once (total_files counts the
\* attempts) and the metadata collected are those of exactly the files
\* whose extraction succeeded, whatever happened to the other files.
C16_FailedFileLeavesOthersAlone ==
    BatchEnded =>
       /\ batch.attempted = discovered(batch.files)
       /\ result # Panic
       /\ result.total_files = Cardinality(discovered(batch.files))
       /\ Len(result.all_photos) = Cardinality(PhotosOf(batch.attempted))
       /\ {result.all_photos[i] : i \in 1..Len(result.all_photos)}
             = PhotosOf(discovered(batch.files))

HasLine(content, line) == \E i \in 1..Len(content) : content[i] = line

RECURSIVE SosFirst(_, _)
SosFirst(d, pos) ==
    IF pos + 2 > Len(d) \/ At(d, pos) # 255 THEN FALSE
    ELSE IF At(d, pos + 1) = 218 THEN TRUE
    ELSE IF pos + 4 > Len(d) THEN FALSE
    ELSE IF At(d, pos + 1) = 225 /\ pos + 10 <= Len(d)
            /\ Slice(d, pos + 4, pos + 10) = ExifSig
    THEN FALSE
    ELSE SosFirst(d, pos + 2 + 256 * At(d, pos + 2) + At(d, pos + 3))

\* C21: in a JPEG whose marker segments, walked from offset 2, reach
\* Start-of-Scan before any APP1/EXIF segment, neither the JPEG scanner nor
\* the malformed scanner finds an EXIF segment: the first ends in its
\* not-found error, the second in None.
C21_NothingFoundAfterStartOfScan ==
    (StartsWithSoi(data) /\ SosFirst(data, 2)) =>
       /\ Ran(<<"jpeg_custom">>) => result.k = "Err"
       /\ Ran(<<"malformed">>) => result = None

\* the chain of marker segments from pos on, each skipped as a whole by its
\* declared length, ends without meeting an APP1/EXIF segment or a
\* Start-of-Scan marker
RECURSIVE WalkEndsEmpty(_, _)
WalkEndsEmpty(d, pos) ==
    IF pos + 4 > Len(d) \/ At(d, pos) # 255 THEN TRUE
    ELSE IF At(d, pos + 1) = 218 THEN FALSE
    ELSE IF At(d, pos + 1) = 225 /\ pos + 10 <= Len(d)
            /\ Slice(d, pos + 4, pos + 10) = ExifSig
    THEN FALSE
    ELSE WalkEndsEmpty(d, pos + 2 + 256 * At(d, pos + 2) + At(d, pos + 3))

\* C22: every segment that is not the APP1/EXIF segment is skipped by its
\* declared length, whatever its marker code.  So in a JPEG whose segments,
\* skipped that way, hold no APP1/EXIF segment, none is found: bytes in the
\* payload of a comment or SOF2 segment are not read as a marker.
C22_PayloadNeverReadAsMarker ==
    (StartsWithSoi(data) /\ WalkEndsEmpty(data, 2)) =>
       /\ Ran(<<"jpeg_custom">>) => result.k = "Err"
       /\ Ran(<<"malformed">>) => result = None

\* the first character of the value of the last Ascii entry with this tag
\* among the entries the GPS-directory parse reads, by the TIFF rule: at the
\* offset when count exceeds 4, in the entry's last 4 bytes otherwise; -1
\* when there is no such entry or its offset leaves the buffer
RefCharOf(d, tag) ==
    LET z == Ifd0Of(d)
        g == GpsDirOf(d)
        fit == IF g.found THEN (Len(d) - g.pos - 2) \div 12 ELSE 0
        n == IF g.declared < fit THEN g.declared ELSE fit
        entry(k) == g.pos + 2 + 12 * k
        S == {k \in 0..(n - 1) :
                 /\ read_u16(d, entry(k), z.bo) = tag
                 /\ read_u16(d, entry(k) + 2, z.bo) = 2
                 /\ read_u32(d, entry(k) + 4, z.bo) >= 1}
    IN  IF S = {} THEN -1
        ELSE LET k == CHOOSE k \in S : \A j \in S : j <= k
                 at == z.tiff_start + read_u32(d, entry(k) + 8, z.bo)
             IN  IF read_u32(d, entry(k) + 4, z.bo) <= 4
                 THEN At(d, entry(k) + 8)
                 ELSE IF at < Len(d) THEN At(d, at)
                 ELSE -1

\* C23: the GPS-directory parse reads a value of more than 4 bytes at TIFF
\* start + the entry's last 4 bytes and a shorter one from those 4 bytes
\* themselves; so the sign of a returned coordinate follows the reference
\* character found that way, also for a reference whose count exceeds 4.
C23_LongReferenceReadAtOffset ==
    (Ran(<<"malformed">>) /\ IsSome(result)
        /\ RefCharOf(data, GPSLatitudeRef) >= 0
        /\ RefCharOf(data, GPSLongitudeRef) >= 0) =>
       /\ IsNegative(result.v.lat) <=> RefCharOf(data, GPSLatitudeRef) = ChS
       /\ IsNegative(result.v.lon) <=> RefCharOf(data, GPSLongitudeRef) = ChW

\* the file with one more skipped segment between SOI and what follows
Moved(d) == <<255, 216>> \o PreSegment \o SubSeq(d, 3, Len(d))

\* the position of the TIFF header: 10 bytes after the marker of the first
\* APP1/EXIF segment on the chain of segments from pos on; -1 without one
RECURSIVE TiffPosOf(_, _)
TiffPosOf(d, pos) ==
    IF pos + 4 >= Len(d) \/ At(d, pos) # 255 THEN -1
    ELSE IF At(d, pos + 1) = 225 /\ pos + 10 < Len(d)
            /\ Slice(d, pos + 4, pos + 10) = ExifSig
    THEN pos + 10
    ELSE TiffPosOf(d, pos + 2 + 256 * At(d, pos + 2) + At(d, pos + 3))

\* positions of the entries of the directory at dirpos that lie in the
\* buffer and have this tag
EntriesWith(d, dirpos, bo, tag) ==
    IF dirpos < 0 \/ dirpos + 2 > Len(d) THEN {}
    ELSE LET fit == (Len(d) - dirpos - 2) \div 12
             declared == read_u16(d, dirpos, bo)
             n == IF declared < fit THEN declared ELSE fit
         IN  {dirpos + 2 + 12 * k : k \in {j \in 0..(n - 1) :
                 read_u16(d, dirpos + 2 + 12 * j, bo) = tag}}

FirstOf(S) == IF S = {} THEN -1 ELSE CHOOSE x \in S : \A y \in S : x <= y

LastOf(S) == IF S = {} THEN -1 ELSE CHOOSE x \in S : \A y \in S : x >= y

\* where the 24 bytes of a coordinate lie when every offset is counted from
\* the TIFF header: header offset -> IFD0, GPS-IFD pointer of IFD0 -> GPS
\* directory, value offset of the coordinate entry -> value; -1 when the
\* chain breaks
AnchoredValuePos(d, tag) ==
    LET T == TiffPosOf(d, 2)
        bo == IF T >= 0 /\ Slice(d, T, T + 2) = <<73, 73>> THEN LE ELSE BE
        head == T >= 0 /\ T + 8 <= Len(d)
                /\ Slice(d, T, T + 2) \in {<<73, 73>>, <<77, 77>>}
                /\ read_u16(d, T + 2, bo) = 42
        ptr == IF head
               THEN FirstOf(EntriesWith(d, T + read_u32(d, T + 4, bo), bo,
                                        34853))
               ELSE -1
        gps == IF ptr >= 0 THEN T + read_u32(d, ptr + 8, bo) ELSE -1
        ent == LastOf({e \in EntriesWith(d, gps, bo, tag) :
                          /\ read_u16(d, e + 2, bo) = 5
                          /\ read_u32(d, e + 4, bo) = 3})
    IN  IF ent >= 0 THEN T + read_u32(d, ent + 8, bo) ELSE -1

\* C24: the scanner adds every offset it takes from the file to the
\* position of the TIFF header.  It returns coordinates only when the chain
\* of offsets counted from the TIFF header leads to both values, they are
\* the 24 bytes found there, and a file whose APP1 segment was moved by a
\* skipped segment inserted before it gives the same result.
C24_OffsetsFromTiffHeader ==
    (Ran(<<"malformed">>) /\ StartsWithSoi(data)) =>
       /\ result = extract_gps_from_malformed_exif(Moved(data))
       /\ IsSome(result) =>
             /\ ReadInOrder(data, AnchoredValuePos(data, GPSLatitude),
                            result.v.lat)
             /\ ReadInOrder(data, AnchoredValuePos(data, GPSLongitude),
                            result.v.lon)
       /\ data = Build(Base) => IsSome(result)

\* coordinates were returned for a file whose APP1 segment follows a skipped
\* segment
C24_Witness ==
    /\ Ran(<<"malformed">>)
    /\ IsSome(result)
    /\ Len(data) > 8 /\ SubSeq(data, 1, 8) = <<255, 216>> \o PreSegment

\* A string has the shape YYYY:MM:DD HH:MM:SS when it is 4, 2, 2, 2, 2 and 2
\* digits with ":", ":", " ", ":", ":" in between; it is a timestamp when
\* the date and the time it names exist.
HasStampShape(s) ==
    /\ Len(s) = 11
    /\ \A i \in {1, 3, 5, 7, 9, 11} : IsNum(s[i])
    /\ s[1].w = 4
    /\ \A i \in {3, 5, 7, 9, 11} : s[i].w = 2
    /\ s[2] = Sep(":") /\ s[4] = Sep(":") /\ s[6] = Sep(" ")
    /\ s[8] = Sep(":") /\ s[10] = Sep(":")

NamesAnInstant(s) ==
    /\ s[3].n \in 1..12
    /\ s[5].n \in 1..days_in_month(s[1].n, s[3].n)
    /\ s[7].n <= 23 /\ s[9].n <= 59 /\ s[11].n <= 59

AsciiOf(fields, tag) ==
    LET field == get_field(fields, tag, PRIMARY)
    IN  IF IsSome(field) /\ field.v.vk = "Ascii" THEN Some(field.v.str)
        ELSE None

ParsesAsStamp(fields, tag) ==
    /\ IsSome(AsciiOf(fields, tag))
    /\ HasStampShape(AsciiOf(fields, tag).v)
    /\ NamesAnInstant(AsciiOf(fields, tag).v)

\* the shape is right but the instant does not exist (a clock never set,
\* the 29th of February 2023): the claim is not read on such a field
ShapeOnly(fields, tag) ==
    /\ IsSome(AsciiOf(fields, tag))
    /\ HasStampShape(AsciiOf(fields, tag).v)
    /\ ~NamesAnInstant(AsciiOf(fields, tag).v)

FirstStamp(fields) ==
    IF ParsesAsStamp(fields, DateTimeOriginal)
    THEN AsciiOf(fields, DateTimeOriginal)
    ELSE IF ParsesAsStamp(fields, DateTime) THEN AsciiOf(fields, DateTime)
    ELSE None

Dated(step) == pc = "dated" /\ steps = <<step>>

\* C25: with DateTimeOriginal and DateTime each either a timestamp or of
\* another shape, the timestamp returned is that of the first of the two primary
\* Ascii fields that is a timestamp, and absent when neither is, for the
\* resolver of generic.rs and for the one of exif_parser.rs; the
\* coordinates are returned exactly when both were found, with the
\* timestamp or with "Unknown Date".
C25_FirstParsingTagWins ==
    /\ (/\ Dated("datetime")
        /\ ~ShapeOnly(lib.v, DateTimeOriginal)
        /\ ~ShapeOnly(lib.v, DateTime)) =>
           LET first == FirstStamp(lib.v)
               lat == get_gps_coord(lib.v, GPSLatitude, GPSLatitudeRef)
               lng == get_gps_coord(lib.v, GPSLongitude, GPSLongitudeRef)
           IN  /\ IsSome(first) =>
                     /\ IsSome(result.datetime)
                     /\ result.datetime.v =
                            [year |-> first.v[1].n, month |-> first.v[3].n,
                             day |-> first.v[5].n, hour |-> first.v[7].n,
                             min |-> first.v[9].n, sec |-> first.v[11].n]
               /\ ~IsSome(first) => result.datetime = None
               /\ IsOk(result.got) <=> (IsSome(lat) /\ IsSome(lng))
               /\ IsOk(result.got) =>
                     result.got.v.datetime_str =
                        IF IsSome(first)
                        THEN [first.v EXCEPT ![2] = Sep("-"), ![4] = Sep("-")]
                        ELSE <<Sep("Unknown Date")>>
    /\ (/\ Dated("datetime_string")
        /\ ~ShapeOnly(lib.v, DateTimeOriginal)
        /\ ~ShapeOnly(lib.v, DateTime)) =>
           LET first == FirstStamp(lib.v)
           IN  /\ IsSome(first) =>
                     result.datetime =
                        Some(<<Sep("Data s'emki: "), first.v[5], Sep("."),
                               first.v[3], Sep("."), first.v[1], Sep(" "),
                               first.v[7], Sep(":"), first.v[9]>>)
               /\ ~IsSome(first) => result.datetime = None

StrictlyIncreasing(t) == \A k \in 1..(Len(t) - 1) : t[k] < t[k + 1]

\* the directory loops the scanner runs on d: [declared, iterations] each
DirectoryLoops(d) ==
    LET h == tiff_header(d)
    IN  IF ~IsSome(h) THEN {}
        ELSE LET ifd_pos == h.v.tiff_start + h.v.ifd0_offset
                 gps == find_gps_ifd_offset(d, h.v.tiff_start,
                                            h.v.ifd0_offset, h.v.byte_order)
                 first ==
                     IF ifd_pos + 2 > Len(d) THEN {}
                     ELSE {[declared |-> read_u16(d, ifd_pos, h.v.byte_order),
                            iterations |->
                                find_gps_ifd_offset_iterations(
                                    d, ifd_pos + 2,
                                    read_u16(d, ifd_pos, h.v.byte_order),
                                    h.v.byte_order)]}
                 second ==
                     IF ~IsSome(gps) THEN {}
                     ELSE IF h.v.tiff_start + gps.v + 2 > Len(d) THEN {}
                     ELSE {[declared |->
                                read_u16(d, h.v.tiff_start + gps.v,
                                         h.v.byte_order),
                            iterations |->
                                parse_gps_ifd_iterations(
                                    d, h.v.tiff_start + gps.v + 2,
                                    read_u16(d, h.v.tiff_start + gps.v,
                                             h.v.byte_order))]}
             IN  first \cup second

\* C26: both scanners return on every file.  Within as many iterations as the
\* file has bytes the marker loop of each has left its range, its positions
\* grow strictly from one iteration to the next (a declared length of 0
\* advances by 2), and a directory loop runs at most the declared entry
\* count, which is at most 65535, times.
C26_LoopsAdvanceAndEnd ==
    /\ (Ran(<<"malformed">>) /\ StartsWithSoi(data) /\ Len(data) >= 4) =>
          LET t == find_exif_segment_trail(data, 2, Len(data))
          IN  /\ StrictlyIncreasing(t)
              /\ ~find_exif_segment_continues(data, t[Len(t)])
              /\ IsSome(find_exif_segment(data)) =>
                    find_exif_segment(data).v = t[Len(t)]
              /\ \A loop \in DirectoryLoops(data) :
                    loop.iterations <= loop.declared /\ loop.declared <= 65535
    /\ Ran(<<"jpeg_custom">>) =>
          LET t == jpeg_custom_trail(data, 2, Len(data))
          IN  /\ StrictlyIncreasing(t)
              /\ t[1] >= 2
              /\ ~jpeg_custom_continues(data, t[Len(t)])

\* the scanner stepped over a segment that declares the length 0
C26_Witness ==
    /\ Ran(<<"malformed">>)
    /\ Len(data) > 6 /\ SubSeq(data, 3, 6) = <<255, 224, 0, 0>>
    /\ find_exif_segment_trail(data, 2, Len(data)) = <<2, 4>>

\* the rows of the GPS photos of a folder
GpsRows(dir) ==
    {row(dir.name, f.outcome.v) :
        f \in {g \in discovered(dir.files) : IsOk(g.outcome)}}

FoldersOf(r) == {r.folders[i] : i \in 1..Len(r.folders)}

\* the task has ended, every folder was there, and the database took every
\* row: no error event, and as many photos processed as the folders hold
\* GPS photos
RECURSIVE PhotosIn(_, _)
PhotosIn(folders, i) ==
    IF i > Len(folders) THEN 0
    ELSE Cardinality(GpsRows(folders[i])) + PhotosIn(folders, i + 1)

RunEndedClean ==
    /\ pc = "task_done"
    /\ run.kind \in {"initiate", "reprocess"}
    /\ \A dir \in FoldersOf(run) : dir.exists
    /\ \A i \in 1..Len(events) : events[i].event_type # "processing_error"
    /\ events[Len(events)].processed = PhotosIn(run.folders, 1)

\* C27: when a run of initiate_processing or of reprocess_photos over existing
\* folders has ended with a working database, the table holds the GPS
\* photos of every one of its folders, and only those.
C27_EveryFolderKept ==
    RunEndedClean =>
       table = UNION {GpsRows(dir) : dir \in FoldersOf(run)}

CompleteEvents ==
    {i \in 1..Len(events) : events[i].event_type = "processing_complete"}

\* exactly one completion event was sent, after every error event, and it
\* carries the sums of the task with skipped = total_files - processed
CompleteSentOnce ==
    /\ Cardinality(CompleteEvents) = 1
    /\ Len(events) \in CompleteEvents
    /\ events[Len(events)].total_files = run.stats.total_files
    /\ events[Len(events)].processed = run.stats.processed_count
    /\ events[Len(events)].gps_found = run.stats.gps_count
    /\ events[Len(events)].no_gps = run.stats.no_gps_count
    /\ events[Len(events)].heic_files = run.stats.heic_count
    /\ events[Len(events)].skipped =
          run.stats.total_files - run.stats.processed_count

\* C28: every request that was answered "started" leads to a state in which
\* exactly one completion event has been sent, as the last event of the
\* run, with the sums of the folders processed.
C28_AcceptedRunCompletes == [](pc = "task" => <>CompleteSentOnce)

C30_MissingDirectoryLeavesTable ==
    (pc = "called" /\ ~run.folders[1].exists) =>
       /\ table = OldRows
       /\ result.silent_mode => result.r.k = "Err"
       /\ ~result.silent_mode => result.r = Ok(ZeroStats)

\* the silent call with clear_database on a missing directory returned,
\* and the table had rows to lose
C30_Witness ==
    /\ pc = "called"
    /\ ~run.folders[1].exists
    /\ result.silent_mode
    /\ result.clear_database
    /\ table # {}

=============================================================================
